---- MODULE Spec2Model ----
(***************************************************************************)
(* Hierarchical multi-agent pipeline: task execution (ExecutionAgent),      *)
(* plan execution (execute_plan), the workflow graph (MultiAgentGraph) and  *)
(* the SSE streaming endpoint (chat_stream.generate).                       *)
(*                                                                          *)
(* Python strings that the code inspects (task inputs) are sequences of     *)
(* one-character strings; opaque texts (canned replies, event types) are     *)
(* TLA+ strings.                                                            *)
(***************************************************************************)
EXTENDS Integers, Sequences, FiniteSets, TLC

VARIABLES
    \* ---- execute_plan (one call) ----
    tasks,              \* plan['tasks']
    execution_order,    \* plan['execution_order']
    pc,                 \* "idle" | "loop" | "returned" | "raised"
    idx,                \* number of execution_order entries examined so far
    results,            \* local list `results`
    task_results_map,   \* local dict `task_results_map`
    trace,              \* history: what happened to each examined entry
    calls,              \* history: tool capabilities invoked, in order
    \* ---- execute_task (one call, on its own) ----
    curTask,            \* the task handed to execute_task
    curOutcome,         \* what the tool capability did ("ok" | "raise")
    curReturn,          \* what execute_task did: a TaskResult, or a raise
    \* ---- one streamed query: chat_stream.generate over MultiAgentGraph.stream ----
    state,              \* the graph's AgentState
    node,               \* the graph node to run next ("END": none)
    gpc,                \* MultiAgentGraph.stream: "unstarted" | "suspended" | "at_error" | "done" | "closed"
    apc,                \* generate: "unstarted" | "at_start" | "at_event" | "at_handler" | "at_complete" | "done" | "closed" | "raised"
    wire,               \* the events written to the response, in order
    yielded,            \* the messages MultiAgentGraph.stream yielded, in order
    stages,             \* history: the graph nodes started, in order
    raisedIn,           \* history: the node whose exception reached the orchestrator ("none")
    \* ---- one batch query: MultiAgentGraph.invoke ----
    collab,             \* what the collaborators do during the query (a StepInputs record)
    batch,              \* what invoke returned: the final state, or the error object
    \* ---- concurrent streamed queries through the one agent_graph ----
    conc,               \* per request: its query, state, position, events
    \* ---- one HTTP request to /api/chat or /api/chat/stream ----
    http,               \* the request and the response the handler returned
    sg                  \* one stream_generator object and what its consumer saw

vars == <<tasks, execution_order, pc, idx, results, task_results_map, trace,
          calls, curTask, curOutcome, curReturn,
          state, node, gpc, apc, wire, yielded, stages, raisedIn, collab, batch, conc, http,
          sg>>

batchVars == <<collab, batch>>

streamVars == <<state, node, gpc, apc, wire, yielded, stages, raisedIn>>

planVars == <<tasks, execution_order, pc, idx, results, task_results_map, trace>>
taskVars == <<curTask, curOutcome, curReturn>>

(***************************************************************************)
(* Bounds of the model.                                                     *)
(***************************************************************************)
MaxTasks == 2       \* longest plan['tasks']
MaxOrder == 3       \* longest plan['execution_order']
MaxMessages == 3    \* longest `messages` handed to stream_generator

(***************************************************************************)
(* Python string helpers.                                                   *)
(***************************************************************************)
Upper == [c \in {"H", "I", "N", "O"} |->
             CASE c = "H" -> "h" [] c = "I" -> "i" [] c = "N" -> "n" [] c = "O" -> "o"]

\* str.lower()
Lower(s) == [i \in 1..Len(s) |-> IF s[i] \in DOMAIN Upper THEN Upper[s[i]] ELSE s[i]]

RECURSIVE LStrip(_)
LStrip(s) == IF s # <<>> /\ Head(s) = " " THEN LStrip(Tail(s)) ELSE s

RECURSIVE RStrip(_)
RStrip(s) == IF s # <<>> /\ s[Len(s)] = " " THEN RStrip(SubSeq(s, 1, Len(s) - 1)) ELSE s

\* str.strip()
Strip(s) == RStrip(LStrip(s))

\* `w in s` for two strings: w is a contiguous substring of s
Contains(s, w) == \E i \in 0..(Len(s) - Len(w)) : SubSeq(s, i + 1, i + Len(w)) = w

\* any(word in s for word in words)
AnyIn(s, words) == \E w \in words : Contains(s, w)

(***************************************************************************)
(* String literals of execute_task's direct_llm branch.                     *)
(***************************************************************************)
W_hello     == <<"h","e","l","l","o">>
W_hi        == <<"h","i">>
W_hey       == <<"h","e","y">>
W_greetings == <<"g","r","e","e","t","i","n","g","s">>
W_howareyou == <<"h","o","w"," ","a","r","e"," ","y","o","u">>
W_howdoyoudo == <<"h","o","w"," ","d","o"," ","y","o","u"," ","d","o">>
W_thanks    == <<"t","h","a","n","k","s">>
W_thankyou  == <<"t","h","a","n","k"," ","y","o","u">>
W_bye       == <<"b","y","e">>
W_goodbye   == <<"g","o","o","d","b","y","e">>
W_seeyou    == <<"s","e","e"," ","y","o","u">>
W_ok        == <<"o","k">>
W_okay      == <<"o","k","a","y">>
W_sure      == <<"s","u","r","e">>
W_yes       == <<"y","e","s">>
W_no        == <<"n","o">>

GreetingWords  == {W_hello, W_hi, W_hey, W_greetings}
WellBeingWords == {W_howareyou, W_howdoyoudo}
ThanksWords    == {W_thanks, W_thankyou}
FarewellWords  == {W_bye, W_goodbye, W_seeyou}
AffirmTokens   == {W_ok, W_okay, W_sure, W_yes}
NegateTokens   == {W_no}
VeryShortLen   == 5

\* The replies are opaque texts (written without their emoji); the two f-string
\* replies embed task_input.
R_greeting  == <<"Hello! How can I help you today?">>
R_wellbeing == <<"I'm doing great, thanks for asking! I'm here and ready to assist you. How can I help?">>
R_thanks    == <<"You're welcome! Is there anything else I can help you with?">>
R_farewell  == <<"Goodbye! Have a great day!">>
R_affirm    == <<"Great! What would you like to do next?">>
R_negate    == <<"No problem! Let me know if you need anything else.">>
R_short(task_input)   == <<"I see you said '">> \o task_input \o <<"'. How can I assist you with that?">>
R_generic(task_input) == <<"That's interesting! I'd be happy to help you with '">> \o task_input
                             \o <<"'. What would you like to know?">>

\* A chain that tests the length before the exact short tokens.
DirectReply_LengthFirst(task_input) ==
    LET input_lower == Strip(Lower(task_input)) IN
    IF AnyIn(input_lower, GreetingWords) THEN R_greeting
    ELSE IF AnyIn(input_lower, WellBeingWords) THEN R_wellbeing
    ELSE IF AnyIn(input_lower, ThanksWords) THEN R_thanks
    ELSE IF AnyIn(input_lower, FarewellWords) THEN R_farewell
    ELSE IF Len(input_lower) < VeryShortLen THEN R_short(task_input)
    ELSE IF input_lower \in AffirmTokens THEN R_affirm
    ELSE IF input_lower \in NegateTokens THEN R_negate
    ELSE R_generic(task_input)

\* The if/elif chain of the direct_llm branch: the first rule that matches wins.
DirectReply(task_input) ==
    LET input_lower == Strip(Lower(task_input)) IN
    IF AnyIn(input_lower, GreetingWords) THEN R_greeting
    ELSE IF AnyIn(input_lower, WellBeingWords) THEN R_wellbeing
    ELSE IF AnyIn(input_lower, ThanksWords) THEN R_thanks
    ELSE IF AnyIn(input_lower, FarewellWords) THEN R_farewell
    ELSE IF input_lower \in AffirmTokens THEN R_affirm
    ELSE IF input_lower \in NegateTokens THEN R_negate
    ELSE IF Len(input_lower) < VeryShortLen THEN R_short(task_input)
    ELSE R_generic(task_input)

(***************************************************************************)
(* Tools and tasks.                                                         *)
(***************************************************************************)
\* self.tools: the registry built at startup (name -> capability)
ToolRegistry == {"web_search", "document_analyzer", "data_extractor"}

Absent  == "<absent>"          \* a dict key that is not there
Null    == <<"None">>          \* Python None as a task result
ToolErr == "tool failure"      \* str(e) of the exception a capability raised
KeyErr  == "KeyError"          \* str(e) of a failed registry lookup

\* tool.func(task_input), when it returns
ToolResult(tool_name, task_input) == <<"result of", tool_name>> \o task_input

AbsentInput == <<"<absent>">>  \* a task dict without the 'input' key

\* dict.get(key, default), for string values
Get(value, default) == IF value = Absent THEN default ELSE value

\* task.get('input', '')
GetInput(value) == IF value = AbsentInput THEN <<>> ELSE value

TaskResult(task_id, tool_name, task_input, result, status, error) ==
    [task_id |-> task_id, tool |-> tool_name, input |-> task_input,
     result |-> result, status |-> status, error |-> error, agent |-> "execution"]

\* Mutation of TryBlock: an unknown tool name is looked up as it is.
TryBlock_NoSubstitute(task, outcome) ==
    LET task_id    == Get(task.task_id, "unknown")
        tool_name  == Get(task.tool, "web_search")
        task_input == GetInput(task.input)
    IN  IF tool_name = "direct_llm"
        THEN [kind |-> "return", tool_name |-> tool_name, invoked |-> <<>>,
              value |-> TaskResult(task_id, tool_name, task_input,
                                   DirectReply(task_input), "success", Absent)]
        ELSE IF tool_name \notin ToolRegistry
        THEN [kind |-> "exception", tool_name |-> tool_name, invoked |-> <<>>,
              value |-> KeyErr]
        ELSE IF outcome = "raise"
        THEN [kind |-> "exception", tool_name |-> tool_name,
              invoked |-> <<[tool |-> tool_name, input |-> task_input]>>,
              value |-> ToolErr]
        ELSE [kind |-> "return", tool_name |-> tool_name,
              invoked |-> <<[tool |-> tool_name, input |-> task_input]>>,
              value |-> TaskResult(task_id, tool_name, task_input,
                                   ToolResult(tool_name, task_input), "success", Absent)]

\* Mutation of TryBlock: no direct_llm branch, so direct_llm is one more
\* unknown tool name.
TryBlock_NoDirect(task, outcome) ==
    LET task_id    == Get(task.task_id, "unknown")
        tool_name  == Get(task.tool, "web_search")
        task_input == GetInput(task.input)
        resolved   == IF tool_name \notin ToolRegistry THEN "web_search" ELSE tool_name
    IN  IF outcome = "raise"
        THEN [kind |-> "exception", tool_name |-> resolved,
              invoked |-> <<[tool |-> resolved, input |-> task_input]>>,
              value |-> ToolErr]
        ELSE [kind |-> "return", tool_name |-> resolved,
              invoked |-> <<[tool |-> resolved, input |-> task_input]>>,
              value |-> TaskResult(task_id, resolved, task_input,
                                   ToolResult(resolved, task_input), "success", Absent)]

\* The try block of execute_task: what it returns, or the exception it raises,
\* with the tool capabilities it invoked and the value tool_name has at the end.
TryBlock(task, outcome) ==
    LET task_id    == Get(task.task_id, "unknown")
        tool_name  == Get(task.tool, "web_search")
        task_input == GetInput(task.input)
    IN  IF tool_name = "direct_llm"
        THEN [kind |-> "return", tool_name |-> tool_name, invoked |-> <<>>,
              value |-> TaskResult(task_id, tool_name, task_input,
                                   DirectReply(task_input), "success", Absent)]
        ELSE LET resolved == IF tool_name \notin ToolRegistry THEN "web_search" ELSE tool_name IN
             IF resolved \notin ToolRegistry
             THEN [kind |-> "exception", tool_name |-> resolved, invoked |-> <<>>,
                   value |-> KeyErr]
             ELSE IF outcome = "raise"
             THEN [kind |-> "exception", tool_name |-> resolved,
                   invoked |-> <<[tool |-> resolved, input |-> task_input]>>,
                   value |-> ToolErr]
             ELSE [kind |-> "return", tool_name |-> resolved,
                   invoked |-> <<[tool |-> resolved, input |-> task_input]>>,
                   value |-> TaskResult(task_id, resolved, task_input,
                                        ToolResult(resolved, task_input), "success", Absent)]

\* Mutation of Handler: no handler, the exception leaves execute_task.
Handler_None(task, body) ==
    IF body.kind = "return"
    THEN [kind |-> "return", invoked |-> body.invoked, value |-> body.value]
    ELSE [kind |-> "raise", invoked |-> body.invoked,
          value |-> TaskResult(Get(task.task_id, "unknown"), body.tool_name,
                               GetInput(task.input), Null, "error", body.value)]

\* A handler that calls the capability a second time before giving up.
Handler_Retry(task, body) ==
    IF body.kind = "return"
    THEN [kind |-> "return", invoked |-> body.invoked, value |-> body.value]
    ELSE [kind |-> "return", invoked |-> body.invoked \o body.invoked,
          value |-> TaskResult(Get(task.task_id, "unknown"), body.tool_name,
                               GetInput(task.input), Null, "error", body.value)]

\* The `except Exception` handler of execute_task, applied to what the try
\* block did: an exception becomes the error TaskResult, which is returned.
Handler(task, body) ==
    IF body.kind = "return"
    THEN [kind |-> "return", invoked |-> body.invoked, value |-> body.value]
    ELSE [kind |-> "return", invoked |-> body.invoked,
          value |-> TaskResult(Get(task.task_id, "unknown"), body.tool_name,
                               GetInput(task.input), Null, "error", body.value)]

\* execute_task: the try block with the handler around it.
ExecuteTask(task, outcome) == Handler(task, TryBlock(task, outcome))

(***************************************************************************)
(* execute_plan.                                                            *)
(***************************************************************************)
\* Mutation of FindTask: the last entry carrying task_id.
FindTask_Last(ts, task_id) ==
    IF \E i \in 1..Len(ts) : ts[i].task_id = task_id
    THEN CHOOSE i \in 1..Len(ts) :
            ts[i].task_id = task_id /\ \A j \in (i + 1)..Len(ts) : ts[j].task_id # task_id
    ELSE 0

\* an entry of plan.tasks that is a dict (a JSON plan may list strings)
IsDict(task) == "str" \notin DOMAIN task

\* next((t for t in tasks if t['task_id'] == task_id), None): the index of the
\* first entry carrying task_id, 0 for None, -1 when an entry that is no dict
\* or has no task_id key is reached first (t['task_id'] raises).
RECURSIVE FindFrom(_, _, _)
FindFrom(ts, task_id, i) ==
    IF i > Len(ts) THEN 0
    ELSE IF ~IsDict(ts[i]) THEN -1
    ELSE IF ts[i].task_id = Absent THEN -1
    ELSE IF ts[i].task_id = task_id THEN i
    ELSE FindFrom(ts, task_id, i + 1)

FindTask(ts, task_id) == FindFrom(ts, task_id, 1)

\* Mutation of DepsCompleted: any() in the place of all().
DepsCompleted_Any(dependencies, map) == \E dep \in dependencies : dep \in DOMAIN map

\* Mutation of DepsCompleted: a dependency counts only when it succeeded.
DepsCompleted_Succeeded(dependencies, map) ==
    \A dep \in dependencies :
        IF dep \in DOMAIN map THEN map[dep].status = "success" ELSE FALSE

\* all(dep in task_results_map for dep in dependencies)
DepsCompleted(dependencies, map) == \A dep \in dependencies : dep \in DOMAIN map

\* Mutation of MapPut: the result is not recorded.
MapPut_Forget(map, task_id, result) == map

\* Mutation of MapPut: an id that already has a result keeps it.
MapPut_KeepFirst(map, task_id, result) ==
    [k \in DOMAIN map \cup {task_id} |-> IF k \in DOMAIN map THEN map[k] ELSE result]

\* task_results_map[task_id] = result
MapPut(map, task_id, result) ==
    [k \in DOMAIN map \cup {task_id} |-> IF k = task_id THEN result ELSE map[k]]

\* Mutation of Record: a task_id executed again overwrites its earlier result.
Record_Overwrite(task_id, res, map, r) ==
    IF r.kind = "raise"
    THEN [kind |-> "raise", results |-> res, task_results_map |-> map,
          invoked |-> r.invoked]
    ELSE [kind |-> "run",
          results |-> Append([i \in 1..Len(res) |->
                                 IF res[i].task_id = task_id THEN r.value ELSE res[i]],
                             r.value),
          task_results_map |-> MapPut(map, task_id, r.value), invoked |-> r.invoked]

\* Mutation of Record: only a successful result is recorded as completed.
Record_SuccessOnly(task_id, res, map, r) ==
    IF r.kind = "raise"
    THEN [kind |-> "raise", results |-> res, task_results_map |-> map,
          invoked |-> r.invoked]
    ELSE [kind |-> "run", results |-> Append(res, r.value),
          task_results_map |-> IF r.value.status = "success"
                               THEN MapPut(map, task_id, r.value) ELSE map,
          invoked |-> r.invoked]

\* results.append(result); task_results_map[task_id] = result, for what
\* execute_task did (r). An exception leaving execute_task would leave
\* execute_plan too: the loop has no handler.
Record(task_id, res, map, r) ==
    IF r.kind = "raise"
    THEN [kind |-> "raise", results |-> res, task_results_map |-> map,
          invoked |-> r.invoked]
    ELSE [kind |-> "run", results |-> Append(res, r.value),
          task_results_map |-> MapPut(map, task_id, r.value), invoked |-> r.invoked]

Skip(kind, res, map) ==
    [kind |-> kind, results |-> res, task_results_map |-> map, invoked |-> <<>>]

\* Mutation of BodyAt: a task_id that already has a result is not run again.
BodyAt_Once(ts, i, task_id, res, map, outcome) ==
    IF i = 0 THEN Skip("missing", res, map)
    ELSE IF task_id \in DOMAIN map
            \/ (ts[i].dependencies # {} /\ ~DepsCompleted(ts[i].dependencies, map))
    THEN Skip("unmet", res, map)
    ELSE Record(task_id, res, map, ExecuteTask(ts[i], outcome))

\* Mutation of BodyAt: an entry with no matching task raises.
BodyAt_MissingRaises(ts, i, task_id, res, map, outcome) ==
    IF i = 0 THEN Skip("raise", res, map)
    ELSE IF ts[i].dependencies # {} /\ ~DepsCompleted(ts[i].dependencies, map)
    THEN Skip("unmet", res, map)
    ELSE Record(task_id, res, map, ExecuteTask(ts[i], outcome))

\* The body of `for task_id in execution_order`, with the task found at index
\* i of tasks (0: not found): the two `continue`s, and the execution with its
\* two recordings.
BodyAt(ts, i, task_id, res, map, outcome) ==
    IF i < 0 THEN Skip("raise", res, map)
    ELSE IF i = 0 THEN Skip("missing", res, map)
    ELSE IF ts[i].dependencies # {} /\ ~DepsCompleted(ts[i].dependencies, map)
    THEN Skip("unmet", res, map)
    ELSE Record(task_id, res, map, ExecuteTask(ts[i], outcome))

\* One iteration of `for task_id in execution_order`.
LoopBody(ts, task_id, res, map, outcome) ==
    BodyAt(ts, FindTask(ts, task_id), task_id, res, map, outcome)

\* execute_plan as a function of the plan and of what each tool call does
\* (outcomes[i] is the outcome of the call made for entry i, if one is made);
\* invoked: the tool capabilities invoked, in order.
RECURSIVE PlanFrom(_, _, _, _, _, _)
PlanAfter(ts, order, outcomes, i, b) ==
    IF b.kind = "raise" THEN [kind |-> "raise", value |-> b.results, invoked |-> b.invoked]
    ELSE [PlanFrom(ts, order, outcomes, i + 1, b.results, b.task_results_map)
            EXCEPT !.invoked = b.invoked \o @]

PlanFrom(ts, order, outcomes, i, res, map) ==
    IF i > Len(order) THEN [kind |-> "return", value |-> res, invoked |-> <<>>]
    ELSE PlanAfter(ts, order, outcomes, i, LoopBody(ts, order[i], res, map, outcomes[i]))

ExecutePlan(ts, order, outcomes) == PlanFrom(ts, order, outcomes, 1, <<>>, <<>>)

(***************************************************************************)
(* StrategyAgent.                                                           *)
(***************************************************************************)
W_goodmorning == <<"g","o","o","d"," ","m","o","r","n","i","n","g">>
W_goodafternoon == <<"g","o","o","d"," ","a","f","t","e","r","n","o","o","n">>
W_goodevening == <<"g","o","o","d"," ","e","v","e","n","i","n","g">>
W_whatsup == <<"w","h","a","t","'","s"," ","u","p">>
W_later == <<"l","a","t","e","r">>
W_ofcourse == <<"o","f"," ","c","o","u","r","s","e">>
W_maybe == <<"m","a","y","b","e">>
W_please == <<"p","l","e","a","s","e">>
W_help == <<"h","e","l","p">>
W_sorry == <<"s","o","r","r","y">>
W_excuseme == <<"e","x","c","u","s","e"," ","m","e">>
W_pardon == <<"p","a","r","d","o","n">>

\* simple_queries of analyze
SimpleQueries ==
    {W_hello, W_hi, W_hey, W_greetings, W_goodmorning, W_goodafternoon, W_goodevening,
     W_howareyou, W_howdoyoudo, W_whatsup, W_thanks, W_thankyou, W_bye, W_goodbye,
     W_seeyou, W_later, W_ok, W_okay, W_yes, W_no, W_sure, W_ofcourse, W_maybe,
     W_please, W_help, W_sorry, W_excuseme, W_pardon}

MaxWords    == 3       \* word_count <= 3
ShortQuery  == 10      \* len(query.strip()) < 10

\* len(s.split()): the number of maximal runs of non-blank characters
WordCount(s) ==
    Cardinality({i \in 1..Len(s) : s[i] # " " /\ (i = 1 \/ s[i - 1] = " ")})

\* is_simple_conversation
IsSimpleConversation(query) ==
    LET query_lower == Strip(Lower(query)) IN
    \/ (WordCount(query) <= MaxWords /\ AnyIn(query_lower, SimpleQueries))
    \/ query_lower \in SimpleQueries
    \/ (Len(Strip(query)) < ShortQuery /\ ~Contains(query, <<"?">>))

Strategy(query, approach, complexity, resources, subtasks, expected, conv, error) ==
    [agent |-> "strategy", query |-> query, approach |-> approach,
     complexity |-> complexity, required_resources |-> resources,
     subtasks |-> subtasks, expected_output |-> expected,
     is_conversational |-> conv, error |-> error]

NullSubtasks == <<"<null>">>     \* a "subtasks": null in the model's JSON
LLMErr == "llm failure"          \* str(e) of a failed language-model call

FallbackStrategy(query, error) ==
    Strategy(query, "Simple web search and summarization", "simple", <<"web_search">>,
             <<"Search for information", "Summarize findings">>,
             "Summary of search results", FALSE, error)

\* What the language model answers to the strategy prompt:
\*   "raise"          the call fails
\*   "text"           text with no JSON object in it
\*   "json"           a JSON strategy with four subtasks
\*   "json_null"      a JSON strategy whose subtasks is null
\*   "json_noapproach" a JSON object without the approach key
StrategyReplies == {"raise", "text", "json", "json_null", "json_noapproach"}

\* analyze(query), given the language model's answer
Analyze(query, reply) ==
    IF IsSimpleConversation(query)
    THEN Strategy(query, "Direct conversational response", "simple", <<>>,
                  <<"Generate friendly response">>, "Conversational reply", TRUE, Absent)
    ELSE IF reply = "raise" THEN FallbackStrategy(query, LLMErr)
    ELSE IF reply = "json_noapproach" THEN FallbackStrategy(query, KeyErr)
    ELSE IF reply = "text"
    THEN Strategy(query, "LLM text", "moderate", <<"web_search", "document_analyzer">>,
                  <<"Research", "Analyze", "Synthesize">>, "Comprehensive answer",
                  FALSE, Absent)
    ELSE Strategy(query, "LLM approach", "complex", <<"web_search">>,
                  IF reply = "json_null" THEN NullSubtasks
                  ELSE <<"subtask 1", "subtask 2", "subtask 3", "subtask 4">>,
                  "LLM output", FALSE, Absent)

(***************************************************************************)
(* PlanningAgent.                                                           *)
(***************************************************************************)
FallbackLimit == 3     \* subtasks[:3]

NoQuery == <<"g","e","n","e","r","a","l"," ","i","n","f","o","r","m","a","t","i","o","n">>

Task(task_id, description, tool, input, dependencies) ==
    [task_id |-> task_id, description |-> description, tool |-> tool,
     input |-> input, dependencies |-> dependencies]

Plan(ts, order, conv) ==
    [tasks |-> ts, execution_order |-> order, is_conversational |-> conv]

Min(a, b) == IF a <= b THEN a ELSE b

\* s[:n]
Prefix(s, n) == SubSeq(s, 1, Min(n, Len(s)))

TaskName(i) == CASE i = 1 -> "task_1" [] i = 2 -> "task_2" [] i = 3 -> "task_3"
                 [] OTHER -> "task_n"

\* A fallback plan limited to two tasks.
CreateFallbackPlan_TwoTasks(strategy) ==
    IF strategy.subtasks = NullSubtasks
    THEN [kind |-> "raise", llm_called |-> FALSE, value |-> Plan(<<>>, <<>>, FALSE)]
    ELSE LET subtasks == Prefix(strategy.subtasks, 2)
             ts       == [i \in 1..Len(subtasks) |->
                             Task(TaskName(i), subtasks[i], "web_search", strategy.query, {})]
         IN  [kind |-> "return", llm_called |-> FALSE,
              value |-> Plan(ts, [i \in 1..Len(ts) |-> ts[i].task_id], FALSE)]

\* _create_fallback_plan(strategy): slicing a null subtasks raises
CreateFallbackPlan(strategy) ==
    IF strategy.subtasks = NullSubtasks
    THEN [kind |-> "raise", llm_called |-> FALSE, value |-> Plan(<<>>, <<>>, FALSE)]
    ELSE LET search_input == IF Strip(strategy.query) = <<>> THEN NoQuery ELSE strategy.query
             subtasks     == Prefix(strategy.subtasks, FallbackLimit)
             ts           == [i \in 1..Len(subtasks) |->
                                 Task(TaskName(i), subtasks[i], "web_search", search_input, {})]
         IN  [kind |-> "return", llm_called |-> FALSE,
              value |-> Plan(ts, [i \in 1..Len(ts) |-> ts[i].task_id], FALSE)]

\* Plans the language model may answer with (JSON with a tasks key).
LLMPlanChain ==
    Plan(<<Task("a", "search", "web_search", <<"q">>, {}),
           Task("b", "read", "document_analyzer", <<"u">>, {"a"})>>,
         <<"a", "b">>, FALSE)

\* tasks listed against their dependencies, and a tool the registry lacks
LLMPlanBackwards ==
    Plan(<<Task("a", "search", "summarizer", <<"q">>, {}),
           Task("b", "read", "web_search", <<"u">>, {"a"})>>,
         <<"b", "a">>, FALSE)

\* a task without a task_id key
LLMPlanNoId ==
    Plan(<<Task(Absent, "search", "web_search", <<"q">>, {})>>, <<"a">>, FALSE)

\* tasks given as strings
LLMPlanStrings == Plan(<<[str |-> "search the web"]>>, <<"a">>, FALSE)

\* JSON with tasks and no execution_order key: plan.get('execution_order', [])
LLMPlanNoOrder ==
    Plan(<<Task("a", "search", "web_search", <<"q">>, {})>>, <<>>, FALSE)

\* a search followed by a canned reply
LLMPlanMixed ==
    Plan(<<Task("a", "search", "web_search", <<"q">>, {}),
           Task("b", "greet", "direct_llm", W_hello, {})>>,
         <<"a", "b">>, FALSE)

\* What the language model answers to the planning prompt:
\*   "raise"       the call fails
\*   "text"        text that holds no JSON object with a tasks key
\*   "chain", "backwards", "noorder", "noid", "strings", "mixed"   the plans above
PlanReplies ==
    {"raise", "text", "chain", "backwards", "noorder", "noid", "strings", "mixed"}

\* A create_plan without the conversational short-circuit.
CreatePlan_AlwaysLLM(strategy, reply) ==
    IF reply \in {"raise", "text"}
    THEN [CreateFallbackPlan(strategy) EXCEPT !.llm_called = TRUE]
    ELSE [kind |-> "return", llm_called |-> TRUE,
          value |-> CASE reply = "chain" -> LLMPlanChain
                      [] reply = "backwards" -> LLMPlanBackwards
                      [] reply = "noid" -> LLMPlanNoId
                      [] reply = "strings" -> LLMPlanStrings
                      [] reply = "mixed" -> LLMPlanMixed
                      [] OTHER -> LLMPlanNoOrder]

\* create_plan(strategy), given the language model's answer (llm_called: whether
\* the language model was called at all)
CreatePlan(strategy, reply) ==
    IF strategy.is_conversational
    THEN [kind |-> "return", llm_called |-> FALSE,
          value |-> Plan(<<Task("conversational_response",
                               "Generate friendly conversational response",
                               "direct_llm", strategy.query, {})>>,
                         <<"conversational_response">>, TRUE)]
    ELSE IF reply \in {"raise", "text"}
    THEN [CreateFallbackPlan(strategy) EXCEPT !.llm_called = TRUE]
    ELSE [kind |-> "return", llm_called |-> TRUE,
          value |-> CASE reply = "chain" -> LLMPlanChain
                      [] reply = "backwards" -> LLMPlanBackwards
                      [] reply = "noid" -> LLMPlanNoId
                      [] reply = "strings" -> LLMPlanStrings
                      [] reply = "mixed" -> LLMPlanMixed
                      [] OTHER -> LLMPlanNoOrder]

AggregationReplies == {"ok", "raise"}

\* aggregate_results(execution_results), given the language model's answer
AggregateResults(execution_results, reply) ==
    [agent |-> "planning", stage |-> "aggregation",
     summary |-> IF reply = "ok" THEN <<"LLM summary">> ELSE <<"Results aggregated">>,
     execution_results |-> execution_results,
     error |-> IF reply = "ok" THEN Absent ELSE LLMErr]

(***************************************************************************)
(* StrategyAgent.synthesize_results.                                        *)
(***************************************************************************)
A_NoResults == <<"I wasn't able to find any information for your query. Please try rephrasing your question.">>
A_NoContent == <<"I performed a web search but couldn't extract meaningful information from the results. This might be due to the search terms or content filtering.">>
A_Found     == <<"Here's what I found: ">>

FinalResponse(final_answer, status, conv) ==
    [agent |-> "strategy", stage |-> "synthesis", final_answer |-> final_answer,
     status |-> status, is_conversational |-> conv]

\* A tool result holds content the synthesis keeps: a returned result of a
\* tool (a failed task's result is None, a canned reply is a string).
HasContent(task_result) ==
    task_result.status = "success" /\ task_result.tool # "direct_llm"

\* A synthesis without the conversational branch.
SynthesizeResults_NoConversation(planning_output) ==
    IF planning_output.execution_results = <<>>
    THEN FinalResponse(A_NoResults, "completed", FALSE)
    ELSE IF \E i \in 1..Len(planning_output.execution_results) :
                HasContent(planning_output.execution_results[i])
    THEN FinalResponse(A_Found, "completed", FALSE)
    ELSE FinalResponse(A_NoContent, "completed", FALSE)

\* Mutation of SynthesizeResults: the conversational answer is the result of
\* the first direct_llm result.
SynthesizeResults_FirstDirect(planning_output) ==
    LET execution_results == planning_output.execution_results
        direct == SelectSeq(execution_results, LAMBDA r : r.tool = "direct_llm")
    IN
    IF direct # <<>>
    THEN FinalResponse(direct[1].result, "completed", TRUE)
    ELSE IF execution_results = <<>>
    THEN FinalResponse(A_NoResults, "completed", FALSE)
    ELSE IF \E i \in 1..Len(execution_results) : HasContent(execution_results[i])
    THEN FinalResponse(A_Found, "completed", FALSE)
    ELSE FinalResponse(A_NoContent, "completed", FALSE)

\* synthesize_results(planning_output); planning_output has no
\* is_conversational and no query key
SynthesizeResults(planning_output) ==
    LET execution_results == planning_output.execution_results IN
    IF (\E i \in 1..Len(execution_results) : execution_results[i].tool = "direct_llm")
       /\ Len(execution_results) > 0
    THEN FinalResponse(execution_results[1].result, "completed", TRUE)
    ELSE IF execution_results = <<>>
    THEN FinalResponse(A_NoResults, "completed", FALSE)
    ELSE IF \E i \in 1..Len(execution_results) : HasContent(execution_results[i])
    THEN FinalResponse(A_Found, "completed", FALSE)
    ELSE FinalResponse(A_NoContent, "completed", FALSE)

(***************************************************************************)
(* The plans and tasks the model runs.                                      *)
(***************************************************************************)
TaskIds  == {"t1", "t2"}
Outcomes == {"ok", "raise"}

I_hello == W_hello

Seqs(S, n) == UNION {[1..k -> S] : k \in 0..n}

\* Tasks of plans: both ids, a registry tool or the canned-reply tool, every
\* dependency set over the ids (an id with no task in the plan included).
PlanTasks ==
    [task_id : TaskIds, tool : {"web_search", "direct_llm"}, input : {I_hello},
     dependencies : SUBSET TaskIds]

NoTask == [task_id |-> Absent, tool |-> Absent, input |-> AbsentInput, dependencies |-> {}]
NoReturn == [kind |-> "none", invoked |-> <<>>, value |-> Absent]

\* a Python {} where a dict is expected
EmptyDict == [empty |-> TRUE]

MaxIterations == 10

\* initial_state of stream() and invoke()
InitialState(query) ==
    [query |-> query, strategy |-> EmptyDict, plan |-> EmptyDict,
     execution_results |-> <<>>, final_response |-> EmptyDict, messages |-> <<>>,
     iteration |-> 0, max_iterations |-> MaxIterations]

\* no streamed query
InitStreamIdle ==
    /\ state = InitialState(<<>>)
    /\ node = "END"
    /\ gpc = "done"
    /\ apc = "done"
    /\ wire = <<>>
    /\ yielded = <<>>
    /\ stages = <<>>
    /\ raisedIn = "none"

\* no HTTP request
NoRequest == [endpoint |-> "none"]

\* no stream_generator object has been created
NoGenerator == [pc |-> "none"]

\* invoke has not been called
NoBatch == [kind |-> "none", value |-> EmptyDict, stages |-> <<>>]

InitBatchIdle ==
    /\ collab = "none"
    /\ batch = NoBatch
    /\ conc = <<>>
    /\ http = NoRequest
    /\ sg = NoGenerator

InitTask ==
    /\ curTask = NoTask
    /\ curOutcome = "ok"
    /\ curReturn = NoReturn

\* execute_plan entered: tasks and execution_order read from the plan,
\* results = [], task_results_map = {}.
Init ==
    /\ tasks \in Seqs(PlanTasks, MaxTasks)
    /\ execution_order \in Seqs(TaskIds, MaxOrder)
    /\ pc = "loop"
    /\ idx = 0
    /\ results = <<>>
    /\ task_results_map = <<>>
    /\ trace = <<>>
    /\ calls = <<>>
    /\ InitTask
    /\ InitStreamIdle
    /\ InitBatchIdle

\* One loop iteration whose outcome is `kind`.
Iteration(kind, outcome) ==
    /\ pc = "loop"
    /\ idx < Len(execution_order)
    /\ \E b \in {LoopBody(tasks, execution_order[idx + 1], results, task_results_map,
                           outcome)} :
       /\ b.kind = kind
       /\ results' = b.results
       /\ task_results_map' = b.task_results_map
       /\ calls' = calls \o b.invoked
       /\ trace' = Append(trace, [kind |-> b.kind, before |-> Len(results),
                                  outcome |-> IF b.invoked = <<>> THEN "none" ELSE outcome])
       /\ idx' = idx + 1
       /\ pc' = IF b.kind = "raise" THEN "raised" ELSE "loop"
    /\ UNCHANGED <<tasks, execution_order, taskVars, streamVars, batchVars, conc, http, sg>>

\* `continue` after "not found in plan"
SkipMissing ==
    /\ pc = "loop"
    /\ Iteration("missing", "ok")

\* Mutation of SkipUnmet: the entry whose dependencies are not met is put back
\* at the end of execution_order to be tried again.
SkipUnmet_Requeue ==
    /\ pc = "loop"
    /\ idx < Len(execution_order)
    /\ LoopBody(tasks, execution_order[idx + 1], results, task_results_map, "ok").kind
          = "unmet"
    /\ execution_order' =
          [i \in 1..Len(execution_order) |->
              IF i <= idx THEN execution_order[i]
              ELSE IF i < Len(execution_order) THEN execution_order[i + 1]
              ELSE execution_order[idx + 1]]
    /\ UNCHANGED <<tasks, pc, idx, results, task_results_map, trace, calls, taskVars,
                   streamVars, batchVars, conc, http, sg>>

\* `continue` after "dependencies not met"
SkipUnmet ==
    /\ pc = "loop"
    /\ Iteration("unmet", "ok")

\* execute_task, results.append, task_results_map[task_id] = result
RunTask ==
    /\ pc = "loop"
    /\ \E outcome \in Outcomes, kind \in {"run", "raise"} : Iteration(kind, outcome)

\* the loop is exhausted: return results
ReturnResults ==
    /\ pc = "loop"
    /\ idx = Len(execution_order)
    /\ pc' = "returned"
    /\ UNCHANGED <<tasks, execution_order, idx, results, task_results_map, trace, calls,
                   taskVars, streamVars, batchVars, conc, http, sg>>

Next == SkipMissing \/ SkipUnmet \/ RunTask \/ ReturnResults

Spec == Init /\ [][Next]_vars

\* execute_plan entered with a plan whose tasks all use a registry tool
LiveInit ==
    /\ Init
    /\ \A i \in 1..Len(tasks) : tasks[i].tool = "web_search"

\* execute_plan is a sequential loop: while it has a step to take, it takes it
\* (every tool call returns)
LiveSpec == LiveInit /\ [][Next]_vars /\ WF_vars(Next)

(***************************************************************************)
(* execute_task called on its own, on any task.                             *)
(***************************************************************************)
I_Hi_     == <<"H","I"," ">>
I_no      == W_no
I_NO      == <<"N","O">>
I_ok      == W_ok
I_thanks  == W_thanks
I_bye     == W_bye
I_abc     == <<"a","b","c">>
I_this    == <<"t","h","i","s">>
I_query   == <<"q","u","e","r","y">>
I_empty   == <<>>
I_hibye   == <<"h","i"," ","b","y","e">>
I_sure    == W_sure

TaskInputs ==
    {I_hello, I_Hi_, I_no, I_NO, I_ok, I_thanks, I_bye, I_abc, I_this, I_query,
     I_empty, I_hibye, I_sure, W_howareyou}

\* Any task dict: keys that may be missing, registry tools, the canned-reply
\* tool and a tool name the registry does not know.
AnyTask ==
    [task_id : {"t1", Absent},
     tool : ToolRegistry \cup {"direct_llm", "xyz", Absent},
     input : TaskInputs \cup {AbsentInput},
     dependencies : {{}}]

InitPlanIdle ==
    /\ tasks = <<>>
    /\ execution_order = <<>>
    /\ pc = "idle"
    /\ idx = 0
    /\ results = <<>>
    /\ task_results_map = <<>>
    /\ trace = <<>>

TaskInit ==
    /\ InitPlanIdle
    /\ calls = <<>>
    /\ InitTask
    /\ InitStreamIdle
    /\ InitBatchIdle

\* execute_task(task), whatever the tool capability does
CallExecuteTask ==
    \E task \in AnyTask, outcome \in Outcomes :
        LET r == ExecuteTask(task, outcome) IN
        /\ curTask' = task
        /\ curOutcome' = outcome
        /\ curReturn' = r
        /\ calls' = r.invoked
        /\ UNCHANGED <<planVars, streamVars, batchVars, conc, http, sg>>

TaskNext == CallExecuteTask

TaskSpec == TaskInit /\ [][TaskNext]_vars

(***************************************************************************)
(* MultiAgentGraph: the four nodes and the graph's edges.                   *)
(***************************************************************************)
Message(agent, type, data) == [agent |-> agent, type |-> type, data |-> data]

\* What the collaborators do during one step of the graph: the language
\* model's answers and the outcome of each tool call of the plan.
StepInputs ==
    [strategy : StrategyReplies, plan : PlanReplies,
     tools : [1..FallbackLimit -> Outcomes], aggregation : AggregationReplies]

\* _strategy_node
StrategyDone(st, strategy) ==
    [kind |-> "return", invoked |-> <<>>,
     state |-> [st EXCEPT !.strategy = strategy,
                          !.messages = Append(@, Message("strategy", "strategy_complete",
                                                         strategy))]]

StrategyNode(st, in) == StrategyDone(st, Analyze(st.query, in.strategy))

\* _planning_node
PlanningDone(st, r) ==
    IF r.kind = "raise" THEN [kind |-> "raise", invoked |-> <<>>, state |-> st]
    ELSE [kind |-> "return", invoked |-> <<>>,
          state |-> [st EXCEPT !.plan = r.value,
                               !.messages = Append(@, Message("planning", "plan_created",
                                                              r.value))]]

PlanningNode(st, in) == PlanningDone(st, CreatePlan(st.strategy, in.plan))

\* Mutation of ExecutionDone: the node counts its run in iteration.
ExecutionDone_Counts(st, r) ==
    IF r.kind = "raise" THEN [kind |-> "raise", invoked |-> r.invoked, state |-> st]
    ELSE [kind |-> "return", invoked |-> r.invoked,
          state |-> [st EXCEPT !.execution_results = r.value,
                               !.iteration = @ + 1,
                               !.messages = Append(@, Message("execution",
                                                              "execution_complete",
                                                              [results |-> r.value]))]]

\* _execution_node
ExecutionDone(st, r) ==
    IF r.kind = "raise" THEN [kind |-> "raise", invoked |-> r.invoked, state |-> st]
    ELSE [kind |-> "return", invoked |-> r.invoked,
          state |-> [st EXCEPT !.execution_results = r.value,
                               !.messages = Append(@, Message("execution",
                                                              "execution_complete",
                                                              [results |-> r.value]))]]

\* Mutation of ExecutionNode: a plan without execution_order runs its tasks in
\* the order of plan.tasks.
ExecutionNode_NaturalOrder(st, in) ==
    ExecutionDone(st, ExecutePlan(st.plan.tasks,
                                  IF st.plan.execution_order = <<>>
                                  THEN [i \in 1..Len(st.plan.tasks) |-> st.plan.tasks[i].task_id]
                                  ELSE st.plan.execution_order,
                                  in.tools))

ExecutionNode(st, in) ==
    ExecutionDone(st, ExecutePlan(st.plan.tasks, st.plan.execution_order, in.tools))

\* _synthesis_node: two messages are appended
SynthesisDone(st, aggregated, final_response) ==
    [kind |-> "return", invoked |-> <<>>,
     state |-> [st EXCEPT !.final_response = final_response,
                          !.messages = @ \o <<Message("planning", "aggregation_complete",
                                                      aggregated),
                                              Message("strategy", "synthesis_complete",
                                                      final_response)>>]]

SynthesisNode(st, in) ==
    SynthesisDone(st, AggregateResults(st.execution_results, in.aggregation),
                  SynthesizeResults(AggregateResults(st.execution_results, in.aggregation)))

\* the node functions registered by _build_graph
RunNode(n, st, in) ==
    CASE n = "strategy"  -> StrategyNode(st, in)
      [] n = "planning"  -> PlanningNode(st, in)
      [] n = "execution" -> ExecutionNode(st, in)
      [] OTHER           -> SynthesisNode(st, in)

\* Edges with a loop back from synthesis to strategy.
NextNode_LoopBack(n) ==
    CASE n = "strategy"  -> "planning"
      [] n = "planning"  -> "execution"
      [] n = "execution" -> "synthesis"
      [] OTHER           -> "strategy"

\* the edges added by _build_graph
NextNode(n) ==
    CASE n = "strategy"  -> "planning"
      [] n = "planning"  -> "execution"
      [] n = "execution" -> "synthesis"
      [] OTHER           -> "END"

EntryPoint == "strategy"

\* The messages channel is declared with the operator.add reducer: the value
\* a node returns is added to the channel's value. The node appended in place
\* to the list it was handed, which is the channel's value.
MergeMessages(current, update) == current \o update

\* the graph's state after a node returned `returned`
MergeState(returned) ==
    [returned EXCEPT !.messages = MergeMessages(returned.messages, returned.messages)]

(***************************************************************************)
(* chat_stream.generate: a workflow message as a wire event.                *)
(***************************************************************************)
\* format_sse_message(event_type, data, agent): type, agent and data of the
\* payload (the timestamp is left out)
Event(type, agent, data) == [type |-> type, agent |-> agent, data |-> data]

SummaryLimit == 200    \* data.get('summary', '')[:200]

StartEvent(query) ==
    Event("start", "None", [query |-> query, message |-> "Starting agent workflow..."])

CompleteEvent == Event("complete", "None", [message |-> "Workflow completed successfully"])

\* A formatter that passes the workflow message's own type on.
FormatMessage_RawType(message) == Event(message.type, message.agent, message.data)

\* the event generate's `except Exception` clause yields
HandlerEvent == Event("error", "None", [message |-> "formatter failure"])

\* the if/elif chain over msg_type: the event yielded for a message
\* ("none": no branch matches, nothing is yielded; "<raise>": building the
\* event raises, as t.get does on a task that is no dict)
FormatMessage(message) ==
    LET data == message.data IN
    CASE message.type = "strategy_complete" ->
           Event("strategy", "strategy",
                 [message |-> "Strategy determined", approach |-> data.approach,
                  complexity |-> data.complexity])
      [] message.type = "plan_created"
           /\ (\E i \in 1..Len(data.tasks) : ~IsDict(data.tasks[i])) ->
           Event("<raise>", "None", [message |-> "formatter failure"])
      [] message.type = "plan_created" ->
           Event("planning", "planning",
                 [message |-> "Execution plan created", task_count |-> Len(data.tasks),
                  tasks |-> [i \in 1..Len(data.tasks) |-> data.tasks[i].description]])
      [] message.type = "execution_complete" ->
           Event("execution", "execution",
                 [message |-> "Tasks executed", completed_tasks |-> Len(data.results),
                  results_preview |-> [i \in 1..Len(data.results) |-> data.results[i].status]])
      [] message.type = "aggregation_complete" ->
           Event("aggregation", "planning",
                 [message |-> "Results aggregated",
                  summary |-> Prefix(data.summary, SummaryLimit)])
      [] message.type = "synthesis_complete" ->
           Event("final", "strategy",
                 [message |-> "Final synthesis complete", answer |-> data.final_answer])
      [] message.type = "error" ->
           Event("error", message.agent, [message |-> data.error])
      [] OTHER -> Event("none", "None", [message |-> "none"])

(***************************************************************************)
(* One streamed query: the consumer pulls events from generate, which pulls  *)
(* messages from MultiAgentGraph.stream, which pulls node outputs from the   *)
(* graph.                                                                   *)
(***************************************************************************)
Q_hello    == W_hello
Q_hi       == W_hi
Q_research == <<"a","i"," ","n","e","w","s","?">>
Q_long     == <<"r","u","s","t"," ","o","r"," ","g","o"," ","n","e","w","s">>

Queries == {Q_hello, Q_hi, Q_research, Q_long}

\* chat_stream accepted the query and handed generate() to the response
StreamInit ==
    /\ InitPlanIdle
    /\ calls = <<>>
    /\ InitTask
    /\ \E query \in Queries : state = InitialState(query)
    /\ node = EntryPoint
    /\ gpc = "unstarted"
    /\ apc = "unstarted"
    /\ wire = <<>>
    /\ yielded = <<>>
    /\ stages = <<>>
    /\ raisedIn = "none"
    /\ InitBatchIdle

\* the last message of the node's state: messages[-1]
LatestMessage(node_state) == node_state.messages[Len(node_state.messages)]

\* A stream() without the except clause's message: the failure is swallowed.
StreamMessage_Silent(r) == LatestMessage(r.state)

\* What stream() yields for a node's outcome: the latest message of the state
\* the node returned, or the error message of the except clause.
StreamMessage(r) ==
    IF r.kind = "raise"
    THEN Message("system", "error", [error |-> "node failure"])
    ELSE LatestMessage(r.state)

\* A producer that starts the first stage before it is asked for its message.
PullStart_Eager ==
    /\ apc = "unstarted"
    /\ wire' = Append(wire, StartEvent(state.query))
    /\ apc' = "at_start"
    /\ stages' = Append(stages, node)
    /\ UNCHANGED <<state, node, gpc, yielded, raisedIn, planVars, calls, taskVars, batchVars, conc, http, sg>>

\* first next(): generate runs to its first yield
PullStart ==
    /\ apc = "unstarted"
    /\ wire' = Append(wire, StartEvent(state.query))
    /\ apc' = "at_start"
    /\ UNCHANGED <<state, node, gpc, yielded, stages, raisedIn, planVars, calls, taskVars, batchVars, conc, http, sg>>

\* next() while a node is left to run: the graph runs the node; stream() yields
\* the node's latest message, or the error message when the node raised;
\* generate yields the message's event.
StageStep(r, message) ==
    /\ stages' = Append(stages, node)
    /\ state' = IF r.kind = "raise" THEN state ELSE MergeState(r.state)
    /\ node' = IF r.kind = "raise" THEN node ELSE NextNode(node)
    /\ raisedIn' = IF r.kind = "raise" THEN node ELSE raisedIn
    /\ gpc' = IF r.kind = "raise" THEN "at_error" ELSE "suspended"
    /\ yielded' = Append(yielded, message)
    /\ wire' = Append(wire, IF FormatMessage(message).type = "<raise>" THEN HandlerEvent
                             ELSE FormatMessage(message))
    /\ apc' = IF FormatMessage(message).type = "<raise>" THEN "at_handler" ELSE "at_event"
    /\ calls' = calls \o r.invoked

PullStage ==
    /\ apc \in {"at_start", "at_event"}
    /\ gpc \in {"unstarted", "suspended"}
    /\ node # "END"
    /\ \E r \in {RunNode(node, state, in) : in \in StepInputs} :
       \E message \in {StreamMessage(r)} : StageStep(r, message)
    /\ UNCHANGED <<planVars, taskVars, batchVars, conc, http, sg>>

\* next() when the graph has no node left, or after stream() yielded its error
\* message: stream() ends, the for loop ends, generate yields complete
PullComplete ==
    /\ apc \in {"at_start", "at_event"}
    /\ \/ gpc = "suspended" /\ node = "END"
       \/ gpc = "at_error"
    /\ gpc' = "done"
    /\ wire' = Append(wire, CompleteEvent)
    /\ apc' = "at_complete"
    /\ UNCHANGED <<state, node, yielded, stages, raisedIn, planVars, calls, taskVars, batchVars, conc, http, sg>>

\* next() after complete: generate returns
PullEnd ==
    /\ apc = "at_complete"
    /\ apc' = "done"
    /\ UNCHANGED <<state, node, gpc, wire, yielded, stages, raisedIn, planVars, calls,
                   taskVars, batchVars, conc, http, sg>>

\* next() after the event of the `except Exception` clause: generate returns,
\* and stream(), left suspended in the abandoned for loop, is closed
PullAfterError ==
    /\ apc = "at_handler"
    /\ apc' = "done"
    /\ gpc' = "closed"
    /\ UNCHANGED <<state, node, wire, yielded, stages, raisedIn, planVars, calls,
                   taskVars, batchVars, conc, http, sg>>

\* A generate whose GeneratorExit handler yields an event: closing it raises
\* RuntimeError (generator ignored GeneratorExit).
Disconnect_Yields ==
    /\ apc \in {"at_start", "at_event", "at_handler", "at_complete"}
    /\ apc' = "raised"
    /\ wire' = Append(wire, Event("error", "None", [message |-> "Stream closed"]))
    /\ gpc' = IF gpc \in {"suspended", "at_error"} THEN "closed" ELSE gpc
    /\ UNCHANGED <<state, node, yielded, stages, raisedIn, planVars, calls, taskVars, batchVars, conc, http, sg>>

\* the consumer disconnects: the response closes generate at its yield
\* (GeneratorExit, caught and logged), and stream() is closed with it
Disconnect ==
    /\ apc \in {"at_start", "at_event", "at_handler", "at_complete"}
    /\ apc' = "closed"
    /\ gpc' = IF gpc \in {"suspended", "at_error"} THEN "closed" ELSE gpc
    /\ UNCHANGED <<state, node, wire, yielded, stages, raisedIn, planVars, calls, taskVars, batchVars, conc, http, sg>>

StreamNext ==
    PullStart \/ PullStage \/ PullComplete \/ PullEnd \/ PullAfterError \/ Disconnect

StreamSpec == StreamInit /\ [][StreamNext]_vars

(***************************************************************************)
(* One query run twice against the same collaborator outcomes: in batch      *)
(* (MultiAgentGraph.invoke) and streamed.                                   *)
(***************************************************************************)
RECURSIVE RunFrom(_, _, _, _)

\* the graph after node n produced r
RunAfter(n, r, in, ran) ==
    IF r.kind = "raise" THEN [kind |-> "raise", state |-> r.state, stages |-> ran]
    ELSE RunFrom(NextNode(n), MergeState(r.state), in, ran)

\* self.graph.invoke: the graph runs from node n in state st until END, or
\* until a node raises (ran: the nodes started so far)
RunFrom(n, st, in, ran) ==
    IF n = "END" THEN [kind |-> "return", state |-> st, stages |-> ran]
    ELSE RunAfter(n, RunNode(n, st, in), in, Append(ran, n))

\* An invoke that hands back the state reached when a node raised.
InvokeReturn_Partial(query, r) ==
    [kind |-> "state", value |-> r.state, stages |-> r.stages]

\* what invoke returns for the graph's outcome r
InvokeReturn(query, r) ==
    IF r.kind = "raise"
    THEN [kind |-> "error", value |-> [error |-> "node failure", query |-> query],
          stages |-> r.stages]
    ELSE [kind |-> "state", value |-> r.state, stages |-> r.stages]

PairInit ==
    /\ InitPlanIdle
    /\ calls = <<>>
    /\ InitTask
    /\ \E query \in Queries : state = InitialState(query)
    /\ node = EntryPoint
    /\ gpc = "unstarted"
    /\ apc = "unstarted"
    /\ wire = <<>>
    /\ yielded = <<>>
    /\ stages = <<>>
    /\ raisedIn = "none"
    /\ collab \in StepInputs
    /\ batch = NoBatch
    /\ conc = <<>>
    /\ http = NoRequest
    /\ sg = NoGenerator

\* invoke(query)
Invoke ==
    /\ batch.kind = "none"
    /\ batch' = InvokeReturn(state.query,
                             RunFrom(EntryPoint, InitialState(state.query), collab, <<>>))
    /\ UNCHANGED <<streamVars, planVars, calls, taskVars, collab, conc, http, sg>>

\* PullStage with the collaborator outcomes of this query
PullStagePaired ==
    /\ apc \in {"at_start", "at_event"}
    /\ gpc \in {"unstarted", "suspended"}
    /\ node # "END"
    /\ \E r \in {RunNode(node, state, collab)} :
       \E message \in {StreamMessage(r)} : StageStep(r, message)
    /\ UNCHANGED <<planVars, taskVars, batchVars, conc, http, sg>>

PairNext ==
    Invoke \/ PullStart \/ PullStagePaired \/ PullComplete \/ PullEnd \/ PullAfterError

PairSpec == PairInit /\ [][PairNext]_vars

(***************************************************************************)
(* Two streamed queries served concurrently by the one agent_graph: each     *)
(* request runs chat_stream, its own generate() and its own stream().        *)
(***************************************************************************)
Requests == {1, 2}

\* What the collaborators do during a concurrent request: everything
\* succeeds, everything fails, or the plan creation fails on null subtasks.
ConcInputs ==
    {[strategy |-> "json", plan |-> "chain", tools |-> [i \in 1..FallbackLimit |-> "ok"],
      aggregation |-> "ok"],
     [strategy |-> "raise", plan |-> "text", tools |-> [i \in 1..FallbackLimit |-> "raise"],
      aggregation |-> "raise"],
     [strategy |-> "json_null", plan |-> "raise", tools |-> [i \in 1..FallbackLimit |-> "ok"],
      aggregation |-> "ok"]}

\* the locals of one request: query (chat_stream), the generator frames of
\* generate() and stream(), and initial_state with the graph run over it
NewRequest(query, in) ==
    [query |-> query, in |-> in, state |-> InitialState(query), node |-> EntryPoint,
     gpc |-> "unstarted", apc |-> "unstarted", wire |-> <<>>, yielded |-> <<>>,
     stages |-> <<>>, raisedIn |-> "none", pulls |-> 0]

\* A graph whose nodes work on one state object shared by all requests.
NodeInput_Shared(c, q) == c[1].state

\* the state the graph hands to a node of request q: the channels of q's own
\* run, created from the initial_state local to q's stream() call
NodeInput(c, q) == c[q].state

\* next() on generate of request r while a node is left to run (PullStage)
ReqStage(r, out, message) ==
    [r EXCEPT !.stages = Append(@, r.node),
              !.state = IF out.kind = "raise" THEN r.state ELSE MergeState(out.state),
              !.node = IF out.kind = "raise" THEN r.node ELSE NextNode(r.node),
              !.raisedIn = IF out.kind = "raise" THEN r.node ELSE r.raisedIn,
              !.gpc = IF out.kind = "raise" THEN "at_error" ELSE "suspended",
              !.yielded = Append(@, message),
              !.wire = Append(@, IF FormatMessage(message).type = "<raise>"
                                 THEN HandlerEvent ELSE FormatMessage(message)),
              !.apc = IF FormatMessage(message).type = "<raise>" THEN "at_handler"
                      ELSE "at_event",
              !.pulls = @ + 1]

\* next() on generate of request r, its nodes working on state st
ReqPull(r, st) ==
    IF r.apc = "unstarted"
    THEN [r EXCEPT !.wire = Append(@, StartEvent(r.query)), !.apc = "at_start",
                   !.pulls = @ + 1]
    ELSE IF r.apc = "at_complete"
    THEN [r EXCEPT !.apc = "done", !.pulls = @ + 1]
    ELSE IF r.apc = "at_handler"
    THEN [r EXCEPT !.apc = "done", !.gpc = "closed", !.pulls = @ + 1]
    ELSE IF r.node # "END" /\ r.gpc \in {"unstarted", "suspended"}
    THEN ReqStage(r, RunNode(r.node, st, r.in), StreamMessage(RunNode(r.node, st, r.in)))
    ELSE [r EXCEPT !.gpc = "done", !.wire = Append(@, CompleteEvent),
                   !.apc = "at_complete", !.pulls = @ + 1]

ConcInit ==
    /\ InitPlanIdle
    /\ calls = <<>>
    /\ InitTask
    /\ InitStreamIdle
    /\ collab = "none"
    /\ batch = NoBatch
    /\ http = NoRequest
    /\ sg = NoGenerator
    /\ conc \in {c \in [Requests -> {NewRequest(query, in) : query \in Queries,
                                                             in \in ConcInputs}] :
                    c[1].query # c[2].query}

\* the consumer of request q pulls its next event
ConcPull(q) ==
    /\ conc[q].apc # "done"
    /\ conc' = [conc EXCEPT ![q] = ReqPull(conc[q], NodeInput(conc, q))]
    /\ UNCHANGED <<planVars, calls, taskVars, streamVars, batchVars, http, sg>>

ConcNext == \E q \in Requests : ConcPull(q)

ConcSpec == ConcInit /\ [][ConcNext]_vars

(***************************************************************************)
(* The HTTP handlers chat and chat_stream.                                  *)
(***************************************************************************)
\* request.get_json() gave None (the body is the JSON value null)
NullBody == [null |-> TRUE]

\* JSON bodies: an object with a query, without the key, with an empty string
\* or with null for it; and a body that is no object
Bodies == [query : Queries \cup {AbsentInput, <<>>, Null}] \cup {NullBody}

\* variant: the missing key defaults to a greeting instead of the empty string
GetQuery_Default(data) == IF data.query = AbsentInput THEN Q_hi ELSE data.query

\* data.get('query', '')
GetQuery(data) == IF data.query = AbsentInput THEN <<>> ELSE data.query

\* `not query`
Falsy(query) == query \in {<<>>, Null}

\* jsonify({'error': 'Query is required'}), 400
BadRequest == [status |-> 400, json |-> [error |-> "Query is required"]]

\* the `except Exception` clause of the handler: jsonify({'error': str(e)}), 500
ServerError == [status |-> 500, json |-> [error |-> "'NoneType' object has no attribute 'get'"]]

\* result.get(key, default)
Field(result, key, default) == IF key \in DOMAIN result THEN result[key] ELSE default

\* the jsonify(...) of chat for what invoke returned
ChatResponse(query, result) ==
    [status |-> 200,
     json |-> [query |-> query,
               response |-> Field(result, "final_response", EmptyDict),
               strategy |-> Field(result, "strategy", EmptyDict),
               execution_count |-> Len(Field(result, "execution_results", <<>>))]]

\* Response(generate(), mimetype='text/event-stream')
StreamResponse == [status |-> 200, mimetype |-> "text/event-stream"]

\* the handler answers without starting the pipeline: data.get raised, or
\* `not query` held
Rejected(data) == IF data = NullBody THEN TRUE ELSE Falsy(GetQuery(data))

HttpInit ==
    /\ InitPlanIdle
    /\ calls = <<>>
    /\ InitTask
    /\ InitStreamIdle
    /\ InitBatchIdle

\* what chat did with a body: the invoke it made (NoBatch: none) and its response
Chat(data, in) ==
    IF data = NullBody THEN [batch |-> NoBatch, response |-> ServerError]
    ELSE IF Falsy(GetQuery(data)) THEN [batch |-> NoBatch, response |-> BadRequest]
    ELSE [batch |-> InvokeReturn(GetQuery(data),
                                 RunFrom(EntryPoint, InitialState(GetQuery(data)), in, <<>>)),
          response |-> ChatResponse(GetQuery(data),
                          InvokeReturn(GetQuery(data),
                                       RunFrom(EntryPoint, InitialState(GetQuery(data)), in,
                                               <<>>)).value)]

\* POST /api/chat
PostChat ==
    /\ http.endpoint = "none"
    /\ \E data \in Bodies, in \in StepInputs :
         \E r \in {Chat(data, in)} :
           /\ http' = [endpoint |-> "chat", data |-> data, response |-> r.response]
           /\ batch' = r.batch
    /\ UNCHANGED <<streamVars, planVars, calls, taskVars, collab, conc, sg>>

\* POST /api/chat/stream with a body the handler rejects
PostChatStreamRejected ==
    /\ http.endpoint = "none"
    /\ \E data \in Bodies :
         /\ Rejected(data)
         /\ http' = [endpoint |-> "chat_stream", data |-> data,
                     response |-> IF data = NullBody THEN ServerError ELSE BadRequest]
    /\ UNCHANGED <<streamVars, planVars, calls, taskVars, batchVars, conc, sg>>

\* POST /api/chat/stream with a query: generate() is handed to the response
PostChatStream ==
    /\ http.endpoint = "none"
    /\ \E data \in Bodies :
         /\ ~Rejected(data)
         /\ http' = [endpoint |-> "chat_stream", data |-> data, response |-> StreamResponse]
         /\ state' = InitialState(GetQuery(data))
    /\ node' = EntryPoint
    /\ gpc' = "unstarted"
    /\ apc' = "unstarted"
    /\ UNCHANGED <<wire, yielded, stages, raisedIn, planVars, calls, taskVars, batchVars,
                   conc, sg>>

HttpNext ==
    \/ PostChat \/ PostChatStreamRejected \/ PostChatStream
    \/ PullStart \/ PullStage \/ PullComplete \/ PullEnd \/ PullAfterError \/ Disconnect

HttpSpec == HttpInit /\ [][HttpNext]_vars

(***************************************************************************)
(* stream_generator: one generator object and its consumer, which asks for   *)
(* the next event (next) or closes the generator (close).                   *)
(*   pc: "unstarted"; "at_yield" (the yield of the for loop); "at_end" (the  *)
(*   yield of `except GeneratorExit`); "at_error" (the yield of `except      *)
(*   Exception`); "at_complete" (the yield of `finally`, entered with no     *)
(*   exception pending); "at_complete_exit" (the same yield, entered with    *)
(*   GeneratorExit pending); "done".                                        *)
(*   error: the exception the consumer's last call raised, StopIteration     *)
(*   apart.                                                                 *)
(***************************************************************************)
\* an item of `messages` that is no (event_type, data, agent) triple: the
\* unpacking in the for statement raises ValueError
Malformed == [malformed |-> TRUE]

MessageItems ==
    {[type |-> "strategy", data |-> [message |-> "analysed"], agent |-> "Strategy Agent"],
     [type |-> "final", data |-> [message |-> "answer"], agent |-> "Strategy Agent"],
     Malformed}

RECURSIVE SeqsUpTo(_, _)
SeqsUpTo(S, n) ==
    IF n = 0 THEN {<<>>}
    ELSE SeqsUpTo(S, n - 1) \cup {Append(q, x) : q \in {t \in SeqsUpTo(S, n - 1) : Len(t) = n - 1},
                                                 x \in S}

NewGenerator(messages) ==
    [messages |-> messages, pos |-> 0, pc |-> "unstarted", out |-> <<>>,
     last |-> "none", error |-> "none"]

EndEvent == Event("end", "None", [message |-> "Stream closed by client"])
ErrorEvent == Event("error", "None", [message |-> "str(e)"])
GeneratorCompleteEvent == Event("complete", "None", [message |-> "Stream completed"])

\* the finally clause: it yields complete (pending: GeneratorExit is waiting to
\* be re-raised when the clause ends)
GeneratorFinally(g, pending) ==
    [g EXCEPT !.pc = IF pending THEN "at_complete_exit" ELSE "at_complete",
              !.out = Append(@, GeneratorCompleteEvent)]

\* the for statement takes the next item: it yields the item's event, or the
\* unpacking raises and `except Exception` yields error, or the items are
\* exhausted and the finally clause runs
GeneratorLoop(g) ==
    IF g.pos = Len(g.messages) THEN GeneratorFinally(g, FALSE)
    ELSE IF g.messages[g.pos + 1] = Malformed
    THEN [g EXCEPT !.pos = @ + 1, !.pc = "at_error", !.out = Append(@, ErrorEvent)]
    ELSE [g EXCEPT !.pos = @ + 1, !.pc = "at_yield",
                   !.out = Append(@, Event(g.messages[g.pos + 1].type,
                                           g.messages[g.pos + 1].agent,
                                           g.messages[g.pos + 1].data))]

\* next(generator): the generator resumes after the yield it is suspended at
GeneratorNext(g) ==
    CASE g.pc \in {"unstarted", "at_yield"} -> GeneratorLoop(g)
      [] g.pc \in {"at_end", "at_error"} -> GeneratorFinally(g, FALSE)
      [] g.pc = "at_complete" -> [g EXCEPT !.pc = "done"]
      [] g.pc = "at_complete_exit" -> [g EXCEPT !.pc = "done", !.error = "GeneratorExit"]

\* generator.close(): GeneratorExit is raised at the yield the generator is
\* suspended at; a generator that answers it with another yield makes close()
\* raise RuntimeError (generator ignored GeneratorExit) and stays suspended
GeneratorClose(g) ==
    CASE g.pc = "unstarted" -> [g EXCEPT !.pc = "done"]
      [] g.pc = "at_yield" ->
            [g EXCEPT !.pc = "at_end", !.out = Append(@, EndEvent), !.error = "RuntimeError"]
      [] g.pc \in {"at_end", "at_error"} ->
            [GeneratorFinally(g, TRUE) EXCEPT !.error = "RuntimeError"]
      [] g.pc \in {"at_complete", "at_complete_exit"} -> [g EXCEPT !.pc = "done"]

GenInit ==
    /\ InitPlanIdle
    /\ calls = <<>>
    /\ InitTask
    /\ InitStreamIdle
    /\ collab = "none"
    /\ batch = NoBatch
    /\ conc = <<>>
    /\ http = NoRequest
    /\ sg \in {NewGenerator(messages) : messages \in SeqsUpTo(MessageItems, MaxMessages)}

\* the consumer asks for the next event
NextEvent ==
    /\ sg.pc \notin {"none", "done"}
    /\ sg' = [GeneratorNext([sg EXCEPT !.error = "none"]) EXCEPT !.last = "next"]
    /\ UNCHANGED <<planVars, calls, taskVars, streamVars, batchVars, conc, http>>

\* the consumer closes the generator
CloseGenerator ==
    /\ sg.pc \notin {"none", "done"}
    /\ sg' = [GeneratorClose([sg EXCEPT !.error = "none"]) EXCEPT !.last = "close"]
    /\ UNCHANGED <<planVars, calls, taskVars, streamVars, batchVars, conc, http>>

GenNext == NextEvent \/ CloseGenerator

GenSpec == GenInit /\ [][GenNext]_vars

(***************************************************************************)
(* Properties of execute_plan (checked under Spec).                         *)
(***************************************************************************)
\* the task_ids of a result list, in order
Ids(res) == [i \in 1..Len(res) |-> res[i].task_id]

\* the task_ids of the first n results
IdSet(res, n) == {res[i].task_id : i \in 1..n}

Range(f) == {f[i] : i \in DOMAIN f}

\* the first entry of plan.tasks carrying task_id (0: none), stated directly
FirstEntry(task_id) ==
    IF \E i \in 1..Len(tasks) : tasks[i].task_id = task_id
    THEN CHOOSE i \in 1..Len(tasks) :
            tasks[i].task_id = task_id /\ \A j \in 1..(i - 1) : tasks[j].task_id # task_id
    ELSE 0

DepsOf(task_id) == tasks[FirstEntry(task_id)].dependencies

\* the number of results entry i of execution_order left behind
After(i) == IF i < Len(trace) THEN trace[i + 1].before ELSE Len(results)

\* every dependency of a listed task is listed strictly earlier than the task
DepsListedEarlier ==
    \A i \in 1..Len(execution_order) :
        FirstEntry(execution_order[i]) # 0 =>
            \A d \in DepsOf(execution_order[i]) :
                \E j \in 1..(i - 1) : execution_order[j] = d

\* every dependency of a listed task is the id of a task of the plan
DepsAreTasks ==
    \A i \in 1..Len(execution_order) :
        FirstEntry(execution_order[i]) # 0 =>
            \A d \in DepsOf(execution_order[i]) : FirstEntry(d) # 0

\* the entries of execution_order that have a task in the plan
ListedTasks == SelectSeq(execution_order, LAMBDA id : FirstEntry(id) # 0)

\* C2 as stated: when every task's dependencies are listed strictly earlier than
\* the task, every listed task is executed exactly once, in execution_order.
C2_AsStated ==
    (pc = "returned" /\ DepsListedEarlier) => Ids(results) = ListedTasks

\* C2, amended: when every dependency of a listed task is listed strictly
\* earlier than the task and is itself the id of a task of the plan, every
\* listed task is executed exactly once per listing, in execution_order.
C2_Thm ==
    (pc = "returned" /\ DepsListedEarlier /\ DepsAreTasks) => Ids(results) = ListedTasks

C2_Witness ==
    /\ pc = "returned"
    /\ DepsListedEarlier /\ DepsAreTasks
    /\ Len(results) = MaxOrder
    /\ \E i \in 1..Len(trace) : trace[i].kind = "run" /\ DepsOf(execution_order[i]) # {}

\* C3: an entry reached while one of its task's dependency ids is not among
\* the tasks already executed in this pass is skipped and leaves no result;
\* execution_order [t2, t1] with t2 depending on t1 yields only t1's result.
C3_Thm ==
    /\ \A i \in 1..Len(trace) :
          (/\ FirstEntry(execution_order[i]) # 0
           /\ \E d \in DepsOf(execution_order[i]) : d \notin IdSet(results, trace[i].before))
          => (trace[i].kind = "unmet" /\ After(i) = trace[i].before)
    /\ (/\ pc = "returned"
        /\ execution_order = <<"t2", "t1">>
        /\ FirstEntry("t1") # 0 /\ FirstEntry("t2") # 0
        /\ DepsOf("t2") = {"t1"} /\ DepsOf("t1") = {})
       => Ids(results) = <<"t1">>

C3_Witness ==
    /\ pc = "returned"
    /\ execution_order = <<"t2", "t1">>
    /\ FirstEntry("t1") # 0 /\ FirstEntry("t2") # 0
    /\ DepsOf("t2") = {"t1"} /\ DepsOf("t1") = {}
    /\ trace[1].kind = "unmet" /\ trace[2].kind = "run"

\* execution_order[1..n] filtered by the two skip rules, stated recursively
RECURSIVE Filtered(_)
Filtered(n) ==
    IF n = 0 THEN <<>>
    ELSE LET prev == Filtered(n - 1)
             id   == execution_order[n]
         IN  IF FirstEntry(id) # 0 /\ DepsOf(id) \subseteq Range(prev)
             THEN Append(prev, id) ELSE prev

\* C4: the task_ids of the results are execution_order filtered by the two
\* skip rules, in the same order, each result made from the first entry of
\* plan.tasks carrying its task_id; at most one result per entry examined.
C4_Thm ==
    /\ pc \in {"loop", "returned"}
    /\ Ids(results) = Filtered(idx)
    /\ pc = "returned" => idx = Len(execution_order)
    /\ \A j \in 1..Len(results) :
          /\ results[j].tool = tasks[FirstEntry(results[j].task_id)].tool
          /\ results[j].input = tasks[FirstEntry(results[j].task_id)].input
    /\ \A i \in 1..Len(trace) : After(i) \in {trace[i].before, trace[i].before + 1}

C4_Witness ==
    /\ pc = "returned"
    /\ Len(results) >= 2
    /\ \E i \in 1..Len(trace) : trace[i].kind \in {"unmet", "missing"}
    /\ Len(tasks) = 2 /\ tasks[1].task_id = tasks[2].task_id /\ tasks[1].tool # tasks[2].tool

\* C5: every occurrence of a task_id in execution_order is decided on its own
\* against the results so far; each occurrence that passes is executed and
\* appended as a separate result.
C5_Thm ==
    \A i \in 1..Len(trace) :
        LET id     == execution_order[i]
            passes == /\ FirstEntry(id) # 0
                      /\ DepsOf(id) \subseteq IdSet(results, trace[i].before)
        IN  /\ trace[i].kind = "run" <=> passes
            /\ passes => (After(i) = trace[i].before + 1 /\ results[After(i)].task_id = id)
            /\ ~passes => After(i) = trace[i].before

C5_Witness ==
    /\ pc = "returned"
    /\ \E i, j, k \in 1..Len(trace) :
          /\ i < j /\ j < k
          /\ execution_order[i] = execution_order[k]
          /\ trace[i].kind = "unmet" /\ trace[j].kind = "run" /\ trace[k].kind = "run"

\* C6: an entry with no matching task leaves no result and raises nothing, and
\* the entries after it are still processed.
C6_Thm ==
    /\ pc # "raised"
    /\ \A i \in 1..Len(trace) :
          FirstEntry(execution_order[i]) = 0
          => (trace[i].kind = "missing" /\ After(i) = trace[i].before)
    /\ pc = "returned" => Len(trace) = Len(execution_order)

C6_Witness ==
    /\ pc = "returned"
    /\ \E i, j \in 1..Len(trace) : i < j /\ trace[i].kind = "missing" /\ trace[j].kind = "run"

\* C8: a failing tool never aborts the plan: the task_ids of the output are
\* those of the run in which every tool call succeeds, and the entries after a
\* failing task are processed.
AllOk == [i \in 1..Len(execution_order) |-> "ok"]

C8_Thm ==
    /\ pc # "raised"
    /\ pc = "returned" =>
          /\ Len(trace) = Len(execution_order)
          /\ Ids(results) = Ids(ExecutePlan(tasks, execution_order, AllOk).value)
          /\ \A i \in 1..Len(trace) :
                (trace[i].kind = "run" /\ trace[i].outcome = "raise")
                => results[After(i)].status = "error"

C8_Witness ==
    /\ pc = "returned"
    /\ \E i, j \in 1..Len(trace) :
          /\ i < j
          /\ trace[i].kind = "run" /\ trace[i].outcome = "raise"
          /\ trace[j].kind = "run"
          /\ execution_order[i] \in DepsOf(execution_order[j])

(***************************************************************************)
(* Properties of execute_task (checked under TaskSpec).                     *)
(***************************************************************************)
Called == curReturn.kind # "none"

\* C7: execute_task never raises; it returns a TaskResult whose status is
\* "success" or "error"; when the capability fails, the status is "error",
\* the result is None and error is the failure's description.
C7_Thm ==
    Called =>
        /\ curReturn.kind = "return"
        /\ curReturn.value.status \in {"success", "error"}
        /\ (curReturn.invoked # <<>> /\ curOutcome = "raise")
           => /\ curReturn.value.status = "error"
              /\ curReturn.value.result = Null
              /\ curReturn.value.error = ToolErr
        /\ (curReturn.invoked = <<>> \/ curOutcome = "ok")
           => /\ curReturn.value.status = "success"
              /\ curReturn.value.error = Absent

C7_Witness ==
    /\ Called
    /\ curReturn.invoked # <<>> /\ curOutcome = "raise"
    /\ curReturn.value.status = "error"

UnknownTool(task) == Get(task.tool, "web_search") \notin ToolRegistry \cup {"direct_llm"}

\* C9: for a tool name that is neither direct_llm nor in the registry, the
\* web_search capability is invoked with the task's input, the result is
\* tagged web_search, and the task fails only if web_search itself fails.
C9_Thm ==
    (Called /\ UnknownTool(curTask)) =>
        /\ calls = <<[tool |-> "web_search", input |-> GetInput(curTask.input)]>>
        /\ curReturn.kind = "return"
        /\ curReturn.value.tool = "web_search"
        /\ curOutcome = "ok" =>
              /\ curReturn.value.status = "success"
              /\ curReturn.value.result = ToolResult("web_search", GetInput(curTask.input))

C9_Witness ==
    /\ Called /\ curTask.tool = "xyz" /\ curOutcome = "ok"
    /\ curReturn.value.tool = "web_search" /\ curReturn.value.status = "success"

\* C10: for a direct_llm task, whatever the input, no tool capability is
\* invoked, the result is tagged direct_llm and the status is "success".
C10_Thm ==
    (Called /\ curTask.tool = "direct_llm") =>
        /\ calls = <<>>
        /\ curReturn.kind = "return"
        /\ curReturn.value.tool = "direct_llm"
        /\ curReturn.value.status = "success"
        /\ curReturn.value.input = GetInput(curTask.input)

C10_Witness ==
    /\ Called /\ curTask.tool = "direct_llm" /\ curOutcome = "raise"
    /\ curTask.input = I_query
    /\ curReturn.value.status = "success"

(***************************************************************************)
(* Properties of the streamed query (checked under StreamSpec).             *)
(***************************************************************************)
\* the types of the events written so far, in order
WireTypes == [i \in 1..Len(wire) |-> wire[i].type]

\* C1 as stated: when no stage raised, no error event was written and the
\* stream was consumed to its end, the events written are start, strategy,
\* planning, execution, aggregation, final, complete, each once and in this
\* order.
C1_AsStated ==
    (apc = "done" /\ raisedIn = "none" /\ \A i \in 1..Len(wire) : wire[i].type # "error") =>
        WireTypes = <<"start", "strategy", "planning", "execution", "aggregation",
                      "final", "complete">>

\* the last result carrying task_id
LastResult(task_id) ==
    results[CHOOSE i \in 1..Len(results) :
                /\ results[i].task_id = task_id
                /\ \A j \in (i + 1)..Len(results) : results[j].task_id # task_id]

\* C26: execute_plan reads the plan and never writes it: plan.tasks and
\* plan.execution_order are the same after every step; a result once appended
\* is never modified (the results only grow at the end); the completion map
\* holds, for each id, the result appended for it.
C26_Thm ==
    /\ [][/\ tasks' = tasks
           /\ execution_order' = execution_order
           /\ Len(results') >= Len(results)
           /\ SubSeq(results', 1, Len(results)) = results]_vars
    /\ [](\A id \in DOMAIN task_results_map : task_results_map[id] = LastResult(id))

\* an id executed twice with different outcomes, both results kept
C26_Witness ==
    /\ pc = "returned"
    /\ \E i, j \in 1..Len(results) :
          /\ i < j
          /\ results[i].task_id = results[j].task_id
          /\ results[i].status = "error"
          /\ results[j].status = "success"

(***************************************************************************)
(* Properties of the direct_llm classification (checked under TaskSpec).    *)
(***************************************************************************)
\* w occurs in s as a contiguous run of characters
Occurs(w, s) == \E i \in 0..(Len(s) - Len(w)) : SubSeq(s, i + 1, i + Len(w)) = w

\* Rule k of the classification (1 greeting, 2 well-being, 3 thanks, 4 farewell,
\* 5 short affirmation, 6 short negation, 7 length below five, 8 generic)
\* matches the lower-cased, stripped input s.
RuleMatches(k, s) ==
    CASE k = 1 -> \E w \in {W_hello, W_hi, W_hey, W_greetings} : Occurs(w, s)
      [] k = 2 -> \E w \in {W_howareyou, W_howdoyoudo} : Occurs(w, s)
      [] k = 3 -> \E w \in {W_thanks, W_thankyou} : Occurs(w, s)
      [] k = 4 -> \E w \in {W_bye, W_goodbye, W_seeyou} : Occurs(w, s)
      [] k = 5 -> s \in {W_ok, W_okay, W_sure, W_yes}
      [] k = 6 -> s = W_no
      [] k = 7 -> Len(s) < 5
      [] OTHER -> TRUE

\* the rules that match the input of the task
MatchingRules == {k \in 1..8 : RuleMatches(k, Strip(Lower(GetInput(curTask.input))))}

\* the earliest of them
FirstRule == CHOOSE k \in MatchingRules : \A j \in MatchingRules : k <= j

RuleReply(k, task_input) ==
    CASE k = 1 -> R_greeting [] k = 2 -> R_wellbeing [] k = 3 -> R_thanks
      [] k = 4 -> R_farewell [] k = 5 -> R_affirm [] k = 6 -> R_negate
      [] k = 7 -> R_short(task_input) [] OTHER -> R_generic(task_input)

DirectCall == Called /\ curTask.tool = "direct_llm" /\ curReturn.kind = "return"

\* C11: the reply of a direct_llm task is a function of the input alone: the
\* reply of the earliest rule, in the order greeting, well-being, thanks,
\* farewell, short affirmation, short negation, length below five, generic,
\* that matches; "hello" gets the greeting reply and "no" the short-negation
\* reply.
C11_Thm ==
    DirectCall =>
        /\ curReturn.value.result = RuleReply(FirstRule, GetInput(curTask.input))
        /\ (curTask.input = I_hello => curReturn.value.result = R_greeting)
        /\ (curTask.input = I_no => curReturn.value.result = R_negate)

\* "no" matches the short-negation rule and the two weaker rules after it
C11_Witness ==
    /\ DirectCall
    /\ curTask.input = I_no
    /\ MatchingRules = {6, 7, 8}
    /\ curReturn.value.result = R_negate

(***************************************************************************)
(* Properties of the workflow graph (checked under StreamSpec).             *)
(***************************************************************************)
StageOrder == <<"strategy", "planning", "execution", "synthesis">>

IsPrefix(a, b) == Len(a) <= Len(b) /\ a = SubSeq(b, 1, Len(a))

\* the types of the messages of the state, without repetitions of a message
\* already seen
MessageTypes(st) == {st.messages[i].type : i \in 1..Len(st.messages)}

\* the stage before the last one started has left its output in the state
EarlierCompleted ==
    /\ Len(stages) >= 2 => "strategy_complete" \in MessageTypes(state)
    /\ Len(stages) >= 3 => "plan_created" \in MessageTypes(state)
    /\ Len(stages) >= 4 => "execution_complete" \in MessageTypes(state)

\* C12: the stages started are a prefix of strategy, planning, execution,
\* synthesis (each at most once, in order, none re-entered); a stage starts
\* only when the one before it has completed; and once a stage has failed no
\* stage starts any more (the error state is absorbing).
C12_Thm ==
    /\ [](/\ IsPrefix(stages, StageOrder)
          /\ EarlierCompleted
          /\ raisedIn # "none" => stages[Len(stages)] = raisedIn)
    /\ [][raisedIn # "none" => (stages' = stages /\ raisedIn' = raisedIn)]_vars

C12_Witness ==
    /\ stages = StageOrder
    /\ node = "END"
    /\ raisedIn = "none"
    /\ state.final_response # EmptyDict

\* the event type written for each stage's message
StageEvents == <<"strategy", "planning", "execution", "final">>

\* a stage failed and the stream was consumed to its end
FailedAndConsumed == raisedIn # "none" /\ apc = "done"

\* C15: when a stage fails during a streamed query, the events written are
\* start, the events of the stages completed before the failure, one error
\* event, and complete as the last event.
C15_Thm ==
    /\ FailedAndConsumed =>
            WireTypes = <<"start">> \o SubSeq(StageEvents, 1, Len(stages) - 1)
                            \o <<"error", "complete">>
    /\ raisedIn # "none" =>
            /\ Cardinality({i \in 1..Len(wire) : wire[i].type = "error"}) = 1
            /\ \A i \in 1..Len(wire) :
                   wire[i].type = "error" => (wire[i].agent = "system" /\ i >= Len(wire) - 1)

C15_Witness ==
    /\ FailedAndConsumed
    /\ raisedIn = "execution"
    /\ WireTypes = <<"start", "strategy", "planning", "error", "complete">>

\* C17: when the consumer disconnects while generate is suspended at a yield,
\* generate stops: the disconnection writes no event and computes nothing,
\* generate ends without an exception leaving it, and afterwards no event is
\* written and no stage is started.
C17_Thm ==
    /\ [](apc # "raised")
    /\ [](apc = "closed" => gpc \in {"unstarted", "closed", "done"})
    /\ [][(apc' = "closed" \/ apc = "closed") =>
            (wire' = wire /\ stages' = stages /\ state' = state /\ yielded' = yielded
             /\ node' = node)]_vars

\* disconnected after the strategy event, with three stages left to run
C17_Witness ==
    /\ apc = "closed"
    /\ gpc = "closed"
    /\ stages = <<"strategy">>
    /\ node = "planning"
    /\ WireTypes = <<"start", "strategy">>

\* the items the consumer has requested from generate so far: every request
\* but the last (which ends generate) was answered with one event
Requested == Len(wire) + (IF apc = "done" THEN 1 ELSE 0)

\* the stage whose transition a yielded message reports
StageOf(message) ==
    CASE message.type = "strategy_complete"  -> "strategy"
      [] message.type = "plan_created"       -> "planning"
      [] message.type = "execution_complete" -> "execution"
      [] message.type = "synthesis_complete" -> "synthesis"
      [] message.type = "error"              -> raisedIn
      [] OTHER                               -> "none"

\* C18: streaming is pull-driven. The stages started are never more than the
\* items the consumer has requested; message i yielded reports stage i, one
\* message for one stage; and a stage starts only in the step that answers a
\* request with that stage's message.
C18_Thm ==
    /\ [](/\ Len(stages) <= Requested
          /\ Len(yielded) = Len(stages)
          /\ \A i \in 1..Len(yielded) : StageOf(yielded[i]) = stages[i])
    /\ [][stages' # stages =>
            /\ stages' = Append(stages, node)
            /\ Len(yielded') = Len(yielded) + 1
            /\ Len(wire') = Len(wire) + 1]_vars

\* four stages started after five requests, the sixth not yet made
C18_Witness ==
    /\ stages = StageOrder
    /\ apc = "at_event"
    /\ Requested = 5
    /\ Len(yielded) = 4

\* the results that stand for a tool invocation (a direct_llm task invokes none)
ToolResults == SelectSeq(state.execution_results, LAMBDA r : r.tool # "direct_llm")

\* C24: nothing is retried. Each stage (strategy analysis; plan creation; plan
\* execution; aggregation and synthesis) starts at most once per query; tools
\* are invoked only while the execution stage runs; every result stands for
\* exactly one invocation, failed ones included, so that the invocations are
\* never more than the entries of execution_order.
C24_Thm ==
    /\ [](/\ IsPrefix(stages, StageOrder)
          /\ Len(stages) < 3 => calls = <<>>
          /\ (Len(stages) >= 3 /\ raisedIn # "execution") =>
                /\ Len(calls) = Len(ToolResults)
                /\ \A i \in 1..Len(calls) :
                      calls[i].tool = ToolResults[i].tool /\ calls[i].input = ToolResults[i].input
                /\ Len(calls) <= Len(state.plan.execution_order))
    /\ [][calls' # calls => (node = "execution" /\ stages' = Append(stages, "execution"))]_vars

\* three entries executed, some tool calls failing: three invocations
C24_Witness ==
    /\ node = "END"
    /\ Len(calls) = 3
    /\ Len(state.plan.execution_order) = 3
    /\ \E i \in 1..3 : state.execution_results[i].status = "error"

EventTypes ==
    {"start", "strategy", "planning", "execution", "aggregation", "final", "error",
     "complete"}

\* the number of events of a type written so far
Written(type) == Cardinality({i \in 1..Len(wire) : wire[i].type = type})

\* C25: every event written has a type among start, strategy, planning,
\* execution, aggregation, final, error, complete; the first event of the
\* stream is start; start and complete are each written at most once.
C25_Thm ==
    /\ \A i \in 1..Len(wire) : wire[i].type \in EventTypes
    /\ Len(wire) >= 1 => wire[1].type = "start"
    /\ Written("start") <= 1
    /\ Written("complete") <= 1

\* a complete stream of a failed query
C25_Witness ==
    /\ apc = "done"
    /\ Written("start") = 1 /\ Written("complete") = 1 /\ Written("error") = 1
    /\ Len(wire) = 5

(***************************************************************************)
(* Properties of the batch and the streamed run of one query (checked under *)
(* PairSpec).                                                               *)
(***************************************************************************)
\* agent and type of each message of a log, in order
LogOf(messages) == [i \in 1..Len(messages) |-> <<messages[i].agent, messages[i].type>>]

FiveMessages ==
    << <<"strategy", "strategy_complete">>, <<"planning", "plan_created">>,
       <<"execution", "execution_complete">>, <<"planning", "aggregation_complete">>,
       <<"strategy", "synthesis_complete">> >>

\* C13 as stated: after a successful invoke, the messages of the returned
\* state are exactly strategy_complete, plan_created, execution_complete,
\* aggregation_complete, synthesis_complete, in this order, none duplicated
\* and none missing.
C13_AsStated ==
    batch.kind = "state" => LogOf(batch.value.messages) = FiveMessages

\* both runs of the query are over, and neither failed
BothSucceeded == apc = "done" /\ raisedIn = "none" /\ batch.kind = "state"

\* C14 as stated, in its weakest reading (repetitions in the log aside): for
\* the same query and the same collaborator outcomes, every message of the log
\* that invoke accumulated is among the messages that stream yielded.
C14_AsStated ==
    BothSucceeded =>
        \A i \in 1..Len(batch.value.messages) :
            \E j \in 1..Len(yielded) : yielded[j] = batch.value.messages[i]

\* the positions of the system/error messages among those yielded
ErrorsYielded ==
    {i \in 1..Len(yielded) : yielded[i].agent = "system" /\ yielded[i].type = "error"}

\* C16: a failure in a stage halts the workflow. Streaming: exactly one
\* system/error message is yielded and it is the last one, no stage starts
\* and nothing is yielded after it, and no synthesis_complete is produced.
\* Batch: invoke returns the object {error, query} and no state; the stages
\* started end with the failed one, each started once.
C16_Thm ==
    /\ [](/\ raisedIn # "none" =>
               /\ ErrorsYielded = {Len(yielded)}
               /\ \A i \in 1..Len(yielded) : yielded[i].type # "synthesis_complete"
               /\ state.final_response = EmptyDict
               /\ stages[Len(stages)] = raisedIn
          /\ raisedIn = "none" => ErrorsYielded = {}
          /\ (batch.kind # "none" /\ raisedIn # "none") =>
               /\ batch.kind = "error"
               /\ DOMAIN batch.value = {"error", "query"}
               /\ batch.value.query = state.query
               /\ batch.stages = stages
               /\ IsPrefix(batch.stages, StageOrder)
          /\ batch.kind = "error" => (node # "END" /\ IsPrefix(batch.stages, StageOrder)))
    /\ [][raisedIn # "none" =>
            (stages' = stages /\ yielded' = yielded /\ state' = state /\ node' = node)]_vars

C16_Witness ==
    /\ batch.kind = "error"
    /\ raisedIn = "planning"
    /\ apc = "done"
    /\ LogOf(yielded) = << <<"strategy", "strategy_complete">>, <<"system", "error">> >>

\* the answers with which the plan creation call has failed: the call raised,
\* or its text holds no plan
FailedPlanReplies == {"raise", "text"}

\* the workflow ran all four stages and produced a final response
RanToCompletion ==
    /\ raisedIn = "none"
    /\ stages = StageOrder
    /\ ErrorsYielded = {}
    /\ state.final_response # EmptyDict

\* C19 as stated, for the plan creation call: whenever that call fails,
\* whatever the other collaborator calls answer, the four stages run to
\* completion, no system/error message is produced and a final_response is
\* produced.
C19_AsStated ==
    (apc = "done" /\ collab.plan \in FailedPlanReplies) => RanToCompletion

\* the planning stage has run on a conversational strategy
PlannedConversation ==
    /\ Len(stages) >= 2
    /\ raisedIn = "none"
    /\ state.strategy.is_conversational

\* C20: when strategy.is_conversational is true, create_plan returns the plan
\* with the single task conversational_response (tool direct_llm, input the
\* strategy's query, no dependencies) and execution_order
\* [conversational_response], and the language model is not called, whatever
\* it would have answered.
C20_Thm ==
    PlannedConversation =>
        /\ Len(state.plan.tasks) = 1
        /\ state.plan.tasks[1].task_id = "conversational_response"
        /\ state.plan.tasks[1].tool = "direct_llm"
        /\ state.plan.tasks[1].input = state.strategy.query
        /\ state.plan.tasks[1].dependencies = {}
        /\ state.plan.execution_order = <<"conversational_response">>
        /\ \A reply \in PlanReplies :
              /\ ~CreatePlan(state.strategy, reply).llm_called
              /\ CreatePlan(state.strategy, reply).value = state.plan

\* the model's answer would have been a failure, and a different plan
C20_Witness ==
    /\ PlannedConversation
    /\ collab.plan = "raise"
    /\ state.strategy.query = Q_hello
    /\ state.plan.execution_order = <<"conversational_response">>

\* the planning stage has produced a plan for a strategy that is not
\* conversational (its subtasks a list), after the plan creation call failed
\* or answered text that holds no plan
PlannedByFallback ==
    /\ Len(stages) >= 2
    /\ state.plan # EmptyDict
    /\ ~state.strategy.is_conversational
    /\ collab.plan \in FailedPlanReplies

\* C21: in that case the plan is the fallback plan: min(3, number of subtasks)
\* tasks, one per subtask in order, each with tool web_search and no
\* dependencies, with distinct ids that execution_order lists in order; and
\* the execution stage executes each of them exactly once, in that order.
C21_Thm ==
    PlannedByFallback =>
        /\ Len(state.plan.tasks) =
              (IF Len(state.strategy.subtasks) < 3 THEN Len(state.strategy.subtasks) ELSE 3)
        /\ \A i \in 1..Len(state.plan.tasks) :
              /\ state.plan.tasks[i].description = state.strategy.subtasks[i]
              /\ state.plan.tasks[i].tool = "web_search"
              /\ state.plan.tasks[i].dependencies = {}
              /\ \A j \in 1..Len(state.plan.tasks) :
                    state.plan.tasks[i].task_id = state.plan.tasks[j].task_id => i = j
        /\ state.plan.execution_order = Ids(state.plan.tasks)
        /\ (Len(stages) >= 3 /\ raisedIn = "none") =>
              /\ Ids(state.execution_results) = state.plan.execution_order
              /\ \A i \in 1..Len(state.execution_results) :
                    state.execution_results[i].tool = "web_search"

\* four subtasks, of which three are planned and executed, one tool call failing
C21_Witness ==
    /\ PlannedByFallback
    /\ Len(state.strategy.subtasks) = 4
    /\ Len(state.execution_results) = 3
    /\ \E i \in 1..3 : state.execution_results[i].status = "error"

\* the query is "hello"
Hello == state.query = Q_hello

\* C22: for the query "hello", the strategy stage flags is_conversational,
\* the planning stage returns the single direct_llm task, the execution stage
\* returns the canned greeting, and the final response has final_answer equal
\* to that greeting and status "completed", whether or not the aggregation
\* call fails; in the streamed run and in the batch run alike.
C22_Thm ==
    /\ (Hello /\ Len(stages) >= 1) => state.strategy.is_conversational
    /\ (Hello /\ Len(stages) >= 2) =>
          /\ Len(state.plan.tasks) = 1
          /\ state.plan.tasks[1].tool = "direct_llm"
    /\ (Hello /\ Len(stages) >= 3) =>
          /\ Len(state.execution_results) = 1
          /\ state.execution_results[1].result = R_greeting
          /\ state.execution_results[1].status = "success"
    /\ (Hello /\ Len(stages) >= 4) =>
          /\ raisedIn = "none"
          /\ state.final_response.final_answer = R_greeting
          /\ state.final_response.status = "completed"
          /\ wire[Len(stages) + 1].type = "final"
          /\ wire[Len(stages) + 1].data.answer = R_greeting
    /\ (Hello /\ batch.kind # "none") =>
          /\ batch.kind = "state"
          /\ batch.value.final_response.final_answer = R_greeting
          /\ batch.value.final_response.status = "completed"

\* both runs of "hello" are over, and the aggregation call failed in both
C22_Witness ==
    /\ Hello
    /\ collab.aggregation = "raise"
    /\ apc = "done"
    /\ batch.kind = "state"
    /\ state.final_response.final_answer = R_greeting

(***************************************************************************)
(* Properties of concurrent queries (checked under ConcSpec).               *)
(***************************************************************************)
\* the request after k pulls when it is the only request served
RECURSIVE SoloRun(_, _, _)
SoloStep(r) == ReqPull(r, r.state)
SoloRun(query, in, k) ==
    IF k = 0 THEN NewRequest(query, in) ELSE SoloStep(SoloRun(query, in, k - 1))

\* the query recorded in the data of request q is q's own
OwnData(q) ==
    /\ conc[q].state.query = conc[q].query
    /\ conc[q].state.strategy # EmptyDict => conc[q].state.strategy.query = conc[q].query
    /\ Len(conc[q].wire) >= 1 => conc[q].wire[1].data.query = conc[q].query
    /\ \A i \in 1..Len(conc[q].yielded) :
          conc[q].yielded[i].type = "strategy_complete" =>
              conc[q].yielded[i].data.query = conc[q].query

\* C23: two distinct queries served concurrently by the shared agent_graph.
\* Under every interleaving, the state and the events of each query are
\* those the query has when it is served alone with the same collaborator
\* outcomes, they carry the query's own data, and a step of one query leaves
\* the other query's state and events unchanged.
C23_Thm ==
    /\ [](\A q \in Requests :
             /\ conc[q] = SoloRun(conc[q].query, conc[q].in, conc[q].pulls)
             /\ OwnData(q))
    /\ [][\A q \in Requests :
             conc'[q] # conc[q] => \A p \in Requests \ {q} : conc'[p] = conc[p]]_vars

\* the first query over while the second is between two of its stages
C23_Witness ==
    /\ conc[1].apc = "done" /\ conc[2].apc = "at_event"
    /\ conc[1].query = Q_research /\ conc[2].query = Q_hello
    /\ conc[1].stages = StageOrder
    /\ Len(conc[2].stages) = 2
    /\ conc[1].state.final_response # EmptyDict

(***************************************************************************)
(* Properties of the HTTP handlers (checked under HttpSpec).                *)
(***************************************************************************)
\* the request body is a JSON object whose query is missing, empty or null
QueryMissing ==
    /\ http.endpoint \in {"chat", "chat_stream"}
    /\ "query" \in DOMAIN http.data
    /\ http.data.query \in {AbsentInput, <<>>, Null}

C30_AsStated ==
    (http.endpoint = "chat" /\ batch.kind = "error") =>
        /\ "error" \in DOMAIN http.response.json
        /\ http.response.json.error = batch.value.error

(***************************************************************************)
(* The end of a stream (checked under StreamSpec).                          *)
(***************************************************************************)
\* C28, as the specification states it: every stream that is not ended by a
\* consumer disconnect ends with a complete event as its last event, also
\* when the conversion of a workflow message into a wire event raises.
\* Violated: generate's `except Exception` clause yields the error event and
\* returns, and the complete event is yielded only after the loop.
C28_AsStated ==
    apc = "done" => /\ Len(wire) >= 1
                    /\ wire[Len(wire)].type = "complete"

(***************************************************************************)
(* Closing stream_generator (checked under GenSpec).                        *)
(***************************************************************************)
\* C29, as the specification states it: when the consumer closes
\* stream_generator while it is suspended at a yield, the generator stops
\* without producing a further event and the close raises no error.
\* Violated: `except GeneratorExit` yields an end event and `finally` yields
\* a complete event, so close() raises RuntimeError.
C29_AsStated ==
    [][(sg'.last = "close" /\ sg.pc \notin {"unstarted", "done"}) =>
          /\ sg'.out = sg.out
          /\ sg'.error = "none"
          /\ sg'.pc = "done"]_vars

(***************************************************************************)
(* Further properties of execute_plan (checked under Spec).                 *)
(***************************************************************************)
\* entry i was executed and its tool failed
FailedAt(i) == trace[i].kind = "run" /\ results[After(i)].status = "error"

\* C31: the dependency test looks only at membership in task_results_map,
\* not at success: a task whose tool failed (status "error") is recorded in
\* the map, and a later entry whose task depends on it, its dependencies all
\* being in the map, is executed and not skipped.
C31_Thm ==
    \A i \in 1..Len(trace) :
        FailedAt(i) =>
            /\ execution_order[i] \in DOMAIN task_results_map
            /\ \A j \in (i + 1)..Len(trace) :
                  (/\ FirstEntry(execution_order[j]) # 0
                   /\ execution_order[i] \in DepsOf(execution_order[j])
                   /\ DepsOf(execution_order[j]) \subseteq IdSet(results, trace[j].before))
                  => (trace[j].kind = "run" /\ After(j) = trace[j].before + 1)

\* t1's tool failed, and t2, which depends on t1, was executed after it
C31_Witness ==
    /\ pc = "returned"
    /\ execution_order = <<"t1", "t2">>
    /\ FailedAt(1)
    /\ task_results_map["t1"].status = "error"
    /\ FirstEntry("t2") # 0
    /\ DepsOf("t2") = {"t1"}
    /\ trace[2].kind = "run"
    /\ Len(results) = 2

\* the dependencies the first task carrying task_id declares (none: no task)
DepsFor(task_id) == IF FirstEntry(task_id) = 0 THEN {} ELSE DepsOf(task_id)

\* the ids reached from the ids S along at most n more dependency declarations
RECURSIVE Reach(_, _)
Reach(S, n) == IF n = 0 THEN S ELSE Reach(S \cup UNION {DepsFor(d) : d \in S}, n - 1)

\* the task depends on itself, directly or through other tasks
OnCycle(task_id) ==
    /\ FirstEntry(task_id) # 0
    /\ task_id \in Reach(DepsFor(task_id), Cardinality(TaskIds))

\* C32: execute_plan terminates for every plan, each tool call returning: it
\* examines each execution_order entry exactly once in one forward pass
\* (idx only moves forward by one, one decision per entry, and it returns
\* with every entry examined), also with cyclic or self-referential
\* dependencies; an entry whose task depends on itself or lies on a
\* dependency cycle is skipped each time it is listed and has no result.
C32_Thm ==
    /\ <>(pc = "returned")
    /\ [](/\ idx <= Len(execution_order)
          /\ Len(trace) = idx
          /\ pc = "returned" => idx = Len(execution_order)
          /\ \A i \in 1..Len(trace) :
                OnCycle(execution_order[i]) =>
                    (trace[i].kind = "unmet" /\ After(i) = trace[i].before)
          /\ \A j \in 1..Len(results) : ~OnCycle(results[j].task_id))
    /\ [][/\ idx' \in {idx, idx + 1}
          /\ execution_order' = execution_order
          /\ idx' = idx + 1 <=> pc = "loop" /\ pc' # "returned"]_vars

\* returned from a plan whose two tasks depend on each other, one of them
\* listed twice
C32_Witness ==
    /\ pc = "returned"
    /\ Len(execution_order) = 3
    /\ execution_order[1] = execution_order[3]
    /\ FirstEntry("t1") # 0 /\ FirstEntry("t2") # 0
    /\ DepsOf("t1") = {"t2"} /\ DepsOf("t2") = {"t1"}
    /\ results = <<>>

\* C33: after every iteration of execute_plan, the keys of task_results_map
\* are the task_ids of the results so far, the entry of an id is the most
\* recent result produced for that id, and there are at most as many results
\* as execution_order entries examined.
C33_Thm ==
    /\ DOMAIN task_results_map = IdSet(results, Len(results))
    /\ \A id \in DOMAIN task_results_map :
          /\ task_results_map[id] = LastResult(id)
          /\ task_results_map[id].task_id = id
    /\ Len(results) <= idx
    /\ idx <= Len(execution_order)

\* in the middle of the pass: an entry was skipped, and t1 was executed
\* twice, the map holding its second, different result
C33_Witness ==
    /\ pc = "loop"
    /\ idx = 3
    /\ Len(results) = 2
    /\ results[1].task_id = "t1" /\ results[2].task_id = "t1"
    /\ results[1] # results[2]
    /\ task_results_map["t1"] = results[2]
    /\ DOMAIN task_results_map = {"t1"}

(***************************************************************************)
(* The frame of the stage transitions (checked under StreamSpec).           *)
(***************************************************************************)
\* the output field of each stage
OwnField(n) ==
    CASE n = "strategy"  -> "strategy"
      [] n = "planning"  -> "plan"
      [] n = "execution" -> "execution_results"
      [] OTHER           -> "final_response"

\* the fields of the workflow state other than messages
StateFields ==
    {"query", "strategy", "plan", "execution_results", "final_response", "iteration",
     "max_iterations"}

\* C34: a stage transition writes only the stage's own output field
\* (STRATEGY strategy, PLANNING plan, EXECUTION execution_results, SYNTHESIS
\* final_response) and adds to messages at the end; query, iteration and
\* max_iterations keep their initial values for the whole workflow; the
\* messages present before a transition are, unchanged and in the same
\* order, the first messages after it.
C34_Thm ==
    /\ [](/\ state.iteration = 0
          /\ state.max_iterations = MaxIterations
          /\ Len(wire) >= 1 => state.query = wire[1].data.query)
    /\ [][/\ \A f \in StateFields \ {OwnField(node)} : state'[f] = state[f]
          /\ IsPrefix(state.messages, state'.messages)
          /\ state' # state => Len(state'.messages) > Len(state.messages)]_vars

\* all four stages have written their field
C34_Witness ==
    /\ node = "END"
    /\ state.strategy # EmptyDict
    /\ state.plan # EmptyDict
    /\ state.execution_results # <<>>
    /\ state.final_response # EmptyDict
    /\ state.iteration = 0
    /\ Len(wire) >= 1 /\ state.query = wire[1].data.query
    /\ Len(state.messages) > 5

(***************************************************************************)
(* Plans without execution_order (checked under StreamSpec).                *)
(***************************************************************************)
\* the execution stage has returned
ExecutionCompleted ==
    \E i \in 1..Len(yielded) : yielded[i].type = "execution_complete"

\* the plan of the state has tasks and no execution_order
PlanWithoutOrder ==
    /\ state.plan # EmptyDict
    /\ state.plan.tasks # <<>>
    /\ state.plan.execution_order = <<>>

\* C35: only execution_order drives execution: every result is the result of
\* a listed task_id; with a plan from the planning collaborator that has
\* tasks and no execution_order, no task is executed (no tool is invoked),
\* the execution stage completes with an empty result sequence, no stage
\* raises and no error event is written, and the workflow reaches synthesis,
\* whose response has status "completed".
C35_Thm ==
    /\ ExecutionCompleted =>
          \A j \in 1..Len(state.execution_results) :
              \E k \in 1..Len(state.plan.execution_order) :
                  state.plan.execution_order[k] = state.execution_results[j].task_id
    /\ PlanWithoutOrder =>
          /\ calls = <<>>
          /\ state.execution_results = <<>>
          /\ raisedIn = "none"
          /\ \A i \in 1..Len(wire) : wire[i].type # "error"
          /\ node = "END" =>
                /\ ExecutionCompleted
                /\ stages = StageOrder
                /\ state.final_response.status = "completed"
                /\ state.final_response.final_answer = A_NoResults
          /\ apc = "done" => (node = "END" /\ wire[Len(wire)].type = "complete")

\* the workflow is over for a plan with one task and no execution_order
C35_Witness ==
    /\ PlanWithoutOrder
    /\ Len(state.plan.tasks) = 1
    /\ node = "END"
    /\ apc = "done"
    /\ state.execution_results = <<>>
    /\ state.final_response.final_answer = A_NoResults

(***************************************************************************)
(* The conversational branch of the synthesis (checked under StreamSpec).   *)
(***************************************************************************)
\* at least one execution result was produced by the direct_llm tool
DirectProduced ==
    \E i \in 1..Len(state.execution_results) :
        state.execution_results[i].tool = "direct_llm"

\* C36: after the synthesis, whenever at least one execution result was
\* produced by the direct_llm tool, the final answer is the result of the
\* first execution result of the sequence, whichever tool produced it, and
\* the final response has status "completed".
C36_Thm ==
    (node = "END" /\ DirectProduced) =>
        /\ state.final_response.final_answer = state.execution_results[1].result
        /\ state.final_response.status = "completed"
        /\ state.final_response.is_conversational

\* the first result is a search result and the second a canned reply
C36_Witness ==
    /\ node = "END"
    /\ Len(state.execution_results) = 2
    /\ state.execution_results[1].tool = "web_search"
    /\ state.execution_results[1].status = "success"
    /\ state.execution_results[2].tool = "direct_llm"
    /\ state.final_response.final_answer = ToolResult("web_search", <<"q">>)
    /\ state.final_response.final_answer # state.execution_results[2].result

====
